---------------------------- MODULE Spec2Model ----------------------------
(***************************************************************************)
(* Randomized binary search tree (RbstNode.h) and the set container built  *)
(* on it (RbstSet.h).  Memory is a map from addresses to node records;     *)
(* the containers' root holders (RbstTree) live at negative addresses,     *)
(* heap nodes (RbstValuedNode) at 1..MaxNodes, and NULL is address 0.      *)
(* The random source is a template parameter of RbstSet: the model treats  *)
(* it as a stream of values, lets each call return any value below the     *)
(* bound it is given, and records how many values a public call took.      *)
(***************************************************************************)
EXTENDS Integers, Sequences, FiniteSets, TLC

\* Keys are 0..MaxKey-1.
MaxKey == 3
\* Heap nodes the allocator can hand out, shared by all containers.
MaxNodes == 3
NULL == 0

Keys  == 0 .. (MaxKey - 1)
Nodes == 1 .. MaxNodes
Sets  == {"a", "b"}

\* Address of the RbstTree member m_tree of container c.
TreeOf(c) == IF c = "a" THEN -1 ELSE -2
Trees == {TreeOf(c) : c \in Sets}
Addr  == Nodes \cup Trees

Comparators == {"less", "IntCompare"}

VARIABLES
    mem,        \* Addr -> [m_left, m_right, m_parent, m_size, m_value]
    live,       \* Sets -> BOOLEAN: the container object exists
    m_comp,     \* Sets -> Comparators: RbstTree::m_comp
    allocated,  \* addresses handed out by m_node_alloc and not yet released
    reference,  \* Sets -> SUBSET Keys: the std::set driven alongside (test7, test8)
    call        \* the last public call: its arguments and what it returned

vars == <<mem, live, m_comp, allocated, reference, call>>

\* Memory that holds no object.
Unused == [m_left |-> NULL, m_right |-> NULL, m_parent |-> NULL,
           m_size |-> 0, m_value |-> 0]

\* RbstNode::RbstNode(left, right, parent), with the value of RbstValuedNode.
RbstNode(h, value, left, right, parent) ==
    [m_left |-> left, m_right |-> right, m_parent |-> parent,
     m_size |-> 1 + (IF left = NULL THEN 0 ELSE h[left].m_size)
                  + (IF right = NULL THEN 0 ELSE h[right].m_size),
     m_value |-> value]

\* static RbstNode::size(node)
size(h, node) == IF node # NULL THEN h[node].m_size ELSE 0

\* IntCompare::operator(): odd numbers sort before even numbers.
IntCompare(a, b) ==
    IF (a % 2) # (b % 2) THEN (a % 2) > (b % 2) ELSE a < b

\* The comparator object applied to two keys.
comp(cmp, a, b) == IF cmp = "less" THEN a < b ELSE IntCompare(a, b)

\* RbstTree::operator()(left, right): compares the values of two nodes.
compare(h, cmp, left, right) == comp(cmp, h[left].m_value, h[right].m_value)

(***************************************************************************)
(* Navigation                                                              *)
(***************************************************************************)
\* Faulty variant of first: no descent to the leftmost node.
first_here(h, n) == n

RECURSIVE first(_, _)
first(h, n) == IF h[n].m_left # NULL THEN first(h, h[n].m_left) ELSE n

\* Faulty variant of last: no descent to the rightmost node.
last_here(h, n) == n

RECURSIVE last(_, _)
last(h, n) == IF h[n].m_right # NULL THEN last(h, h[n].m_right) ELSE n

\* The loop of previous(): climb while the node is a left child.
RECURSIVE climbLeft(_, _)
climbLeft(h, node) ==
    IF h[node].m_parent # NULL /\ node = h[h[node].m_parent].m_left
    THEN climbLeft(h, h[node].m_parent)
    ELSE node

\* The loop of next(): climb while the node is a right child.
RECURSIVE climbRight(_, _)
climbRight(h, node) ==
    IF h[node].m_parent # NULL /\ node = h[h[node].m_parent].m_right
    THEN climbRight(h, h[node].m_parent)
    ELSE node

previous(h, n) ==
    IF h[n].m_left # NULL THEN last(h, h[n].m_left)
    ELSE h[climbLeft(h, n)].m_parent

next(h, n) ==
    IF h[n].m_right # NULL THEN first(h, h[n].m_right)
    ELSE h[climbRight(h, n)].m_parent

\* Faulty variant of offsetInParent: the node is taken for a right child.
offsetInParent_right(h, n, d) == d + 1 + size(h, h[n].m_left)

\* The argument of the parent's offset() in offset(): d seen from the parent.
offsetInParent(h, n, d) ==
    IF n = h[h[n].m_parent].m_left
    THEN d - 1 - size(h, h[n].m_right)
    ELSE d + 1 + size(h, h[n].m_left)

RECURSIVE offset(_, _, _)
offset(h, n, d) ==
    IF d > 0 /\ d <= size(h, h[n].m_right)
    THEN offset(h, h[n].m_right, d - 1 - size(h, h[h[n].m_right].m_left))
    ELSE IF d < 0 /\ (-d) <= size(h, h[n].m_left)
    THEN offset(h, h[n].m_left, d + 1 + size(h, h[h[n].m_left].m_right))
    ELSE IF d = 0
    THEN n
    ELSE IF h[n].m_parent = NULL
    THEN NULL
    ELSE offset(h, h[n].m_parent, offsetInParent(h, n, d))

\* The nodes at which offset() runs, in order, when n->offset(d) is called:
\* n, then the node of each nested call.  At most `fuel` calls are followed.
RECURSIVE offsetVisits(_, _, _, _)
offsetVisits(h, n, d, fuel) ==
    IF fuel = 0 THEN <<>>
    ELSE <<n>> \o
         (IF d > 0 /\ d <= size(h, h[n].m_right)
          THEN offsetVisits(h, h[n].m_right, d - 1 - size(h, h[h[n].m_right].m_left),
                            fuel - 1)
          ELSE IF d < 0 /\ (-d) <= size(h, h[n].m_left)
          THEN offsetVisits(h, h[n].m_left, d + 1 + size(h, h[h[n].m_left].m_right),
                            fuel - 1)
          ELSE IF d = 0 THEN <<>>
          ELSE IF h[n].m_parent = NULL THEN <<>>
          ELSE offsetVisits(h, h[n].m_parent, offsetInParent(h, n, d), fuel - 1))

\* The loop of index(): add the size delta whenever the node is a right child.
RECURSIVE indexLoop(_, _, _)
indexLoop(h, node, idx) ==
    IF h[node].m_parent = NULL THEN idx
    ELSE indexLoop(h, h[node].m_parent,
                   IF node = h[h[node].m_parent].m_right
                   THEN idx + h[h[node].m_parent].m_size - h[node].m_size
                   ELSE idx)

\* Faulty variant of index: the node's own left subtree is not counted.
index_from_zero(h, n) == indexLoop(h, n, 0)

index(h, n) == indexLoop(h, n, size(h, h[n].m_left))

RECURSIVE at(_, _, _)
at(h, n, i) ==
    IF i < size(h, h[n].m_left) THEN at(h, h[n].m_left, i)
    ELSE IF i > size(h, h[n].m_left)
    THEN at(h, h[n].m_right, i - size(h, h[n].m_left) - 1)
    ELSE n

(***************************************************************************)
(* The random source.  rng(bound) may return any value of [0, bound); a    *)
(* structural operation that draws yields the set of its outcomes, one per *)
(* sequence of values drawn, each a record [h, ret, ds]: the memory, the   *)
(* returned pointer and the values drawn so far.                           *)
(***************************************************************************)
\* Faulty variant of rng: the bound itself may be returned.
rng_closed(bound) == 0 .. bound

\* Rng::operator()(bound): the values it may return.
rng(bound) == 0 .. (bound - 1)

Result(h, ret, ds) == [h |-> h, ret |-> ret, ds |-> ds]

\* With(v, LAMBDA x : e) is e with x bound to v: a local variable of the code.
With(v, F(_)) == F(v)

(***************************************************************************)
(* Split, insert, join, erase (RbstNode)                                   *)
(***************************************************************************)
\* Faulty variant of updateSize: the size field keeps its old value.
updateSize_stale(h, n) == h

\* m_size = 1 + size(m_left) + size(m_right)
updateSize(h, n) ==
    [h EXCEPT ![n].m_size = 1 + size(h, h[n].m_left) + size(h, h[n].m_right)]

RECURSIVE split(_, _, _, _, _, _)
split(h, cmp, this, tree, lesser, greater) ==
    IF compare(h, cmp, this, tree)
    THEN With([h EXCEPT ![greater].m_left = tree, ![tree].m_parent = greater],
              LAMBDA h1 :
                updateSize(IF h1[tree].m_left # NULL
                           THEN split(h1, cmp, this, h1[tree].m_left, lesser, tree)
                           ELSE [h1 EXCEPT ![lesser].m_right = NULL],
                           tree))
    ELSE With([h EXCEPT ![lesser].m_right = tree, ![tree].m_parent = lesser],
              LAMBDA h1 :
                updateSize(IF h1[tree].m_right # NULL
                           THEN split(h1, cmp, this, h1[tree].m_right, tree, greater)
                           ELSE [h1 EXCEPT ![greater].m_left = NULL],
                           tree))

\* Faulty variant of swapChildren: the children stay as split() left them.
swapChildren_skipped(h, n) == h

\* std::swap(m_left, m_right)
swapChildren(h, n) ==
    [h EXCEPT ![n].m_left = h[n].m_right, ![n].m_right = h[n].m_left]

\* m_parent = parent
setParent(h, n, parent) == [h EXCEPT ![n].m_parent = parent]

\* The branch of insert() that puts the new node in place of `node`.
insertHere(h, cmp, this, node, parent) ==
    IF node = NULL
    THEN setParent([h EXCEPT ![this].m_left = NULL, ![this].m_right = NULL,
                             ![this].m_size = 1],
                   this, parent)
    ELSE setParent(updateSize(swapChildren(split(h, cmp, this, node, this, this),
                                           this),
                              this),
                   this, parent)

\* node->m_left = insert(node->m_left, ...); ++node->m_size; return node
insertedLeft(sub, node) ==
    Result([sub.h EXCEPT ![node].m_left = sub.ret, ![node].m_size = @ + 1],
           node, sub.ds)

\* node->m_right = insert(node->m_right, ...); ++node->m_size; return node
insertedRight(sub, node) ==
    Result([sub.h EXCEPT ![node].m_right = sub.ret, ![node].m_size = @ + 1],
           node, sub.ds)

\* Faulty variant of stopsHere: the new node goes here on the value 1.
stopsHere_one(r) == r = 1

\* The test of insert() on the value drawn: the new node goes here.
stopsHere(r) == r = 0

RECURSIVE insert(_, _, _, _, _, _)
insert(h, cmp, this, node, parent, ds) ==
    IF node = NULL
    THEN {Result(insertHere(h, cmp, this, node, parent), this, ds)}
    ELSE UNION {
           IF stopsHere(r)
           THEN {Result(insertHere(h, cmp, this, node, parent), this, Append(ds, r))}
           ELSE IF compare(h, cmp, this, node)
           THEN {insertedLeft(sub, node) :
                   sub \in insert(h, cmp, this, h[node].m_left, node, Append(ds, r))}
           ELSE {insertedRight(sub, node) :
                   sub \in insert(h, cmp, this, h[node].m_right, node, Append(ds, r))}
           : r \in rng(1 + h[node].m_size)}

\* Faulty variant of joinedRight: the joined subtree keeps its old parent.
joinedRight_unlinked(sub, lesser) ==
    Result([sub.h EXCEPT ![lesser].m_right = sub.ret], lesser, sub.ds)

\* lesser->m_right = join(...); lesser->m_right->m_parent = lesser; return lesser
joinedRight(sub, lesser) ==
    Result([sub.h EXCEPT ![lesser].m_right = sub.ret, ![sub.ret].m_parent = lesser],
           lesser, sub.ds)

\* greater->m_left = join(...); greater->m_left->m_parent = greater; return greater
joinedLeft(sub, greater) ==
    Result([sub.h EXCEPT ![greater].m_left = sub.ret, ![sub.ret].m_parent = greater],
           greater, sub.ds)

\* Faulty variant of lesserWins: the root of `lesser` wins whatever is drawn.
lesserWins_always(h, lesser, r) == TRUE

\* The test of join() on the value drawn: the root of `lesser` becomes the root.
lesserWins(h, lesser, r) == r < h[lesser].m_size

RECURSIVE join(_, _, _, _)
join(h, lesser, greater, ds) ==
    IF lesser = NULL THEN {Result(h, greater, ds)}
    ELSE IF greater = NULL THEN {Result(h, lesser, ds)}
    ELSE UNION {
           IF lesserWins(h, lesser, r)
           THEN {joinedRight(sub, lesser) :
                   sub \in join([h EXCEPT ![lesser].m_size = @ + size(h, greater)],
                                h[lesser].m_right, greater, Append(ds, r))}
           ELSE {joinedLeft(sub, greater) :
                   sub \in join([h EXCEPT ![greater].m_size = @ + size(h, lesser)],
                                lesser, h[greater].m_left, Append(ds, r))}
           : r \in rng(h[lesser].m_size + h[greater].m_size)}

\* Faulty variant of eraseClimb: no node above `parent` is decremented.
eraseClimb_skipped(h, parent, ds) == Result(h, parent, ds)

\* The loop of erase(): decrement the size of every node above `parent`.
RECURSIVE eraseClimb(_, _, _)
eraseClimb(h, parent, ds) ==
    IF h[parent].m_parent # NULL
    THEN eraseClimb([h EXCEPT ![h[parent].m_parent].m_size = @ - 1],
                    h[parent].m_parent, ds)
    ELSE Result(h, parent, ds)

\* The part of erase() that puts `child` in the place of `this`.
eraseReplace(h, this, parent, child, ds) ==
    IF parent # NULL
    THEN eraseClimb([(IF h[parent].m_left = this
                      THEN [h EXCEPT ![parent].m_left = child]
                      ELSE [h EXCEPT ![parent].m_right = child])
                        EXCEPT ![parent].m_size = @ - 1],
                    parent, ds)
    ELSE Result(h, child, ds)

\* Faulty variant of eraseJoined: the child keeps the parent link it had.
eraseJoined_kept(j, this, parent) ==
    eraseReplace([j.h EXCEPT ![this].m_parent = NULL, ![this].m_left = NULL,
                             ![this].m_right = NULL, ![this].m_size = 1],
                 this, parent, j.ret, j.ds)

\* The part of erase() after the join: clear this node, re-parent the child.
eraseJoined(j, this, parent) ==
    eraseReplace(
        IF j.ret # NULL
        THEN [j.h EXCEPT ![this].m_parent = NULL, ![this].m_left = NULL,
                         ![this].m_right = NULL, ![this].m_size = 1,
                         ![j.ret].m_parent = parent]
        ELSE [j.h EXCEPT ![this].m_parent = NULL, ![this].m_left = NULL,
                         ![this].m_right = NULL, ![this].m_size = 1],
        this, parent, j.ret, j.ds)

erase(h, this, ds) ==
    {eraseJoined(j, this, h[this].m_parent) :
       j \in join(h, h[this].m_left, h[this].m_right, ds)}

(***************************************************************************)
(* Valued lookup (RbstValuedNode) and the root holder (RbstTree)           *)
(***************************************************************************)
\* Faulty variant of find: the descent goes to the wrong side.
RECURSIVE find_mirrored(_, _, _, _, _)
find_mirrored(h, cmp, node, value, res) ==
    IF node = NULL THEN res
    ELSE IF comp(cmp, value, h[node].m_value)
    THEN find_mirrored(h, cmp, h[node].m_right, value, res)
    ELSE IF comp(cmp, h[node].m_value, value)
    THEN find_mirrored(h, cmp, h[node].m_left, value, res)
    ELSE node

RECURSIVE find(_, _, _, _, _)
find(h, cmp, node, value, res) ==
    IF node = NULL THEN res
    ELSE IF comp(cmp, value, h[node].m_value) THEN find(h, cmp, h[node].m_left, value, res)
    ELSE IF comp(cmp, h[node].m_value, value) THEN find(h, cmp, h[node].m_right, value, res)
    ELSE node

RECURSIVE lower_bound(_, _, _, _, _)
lower_bound(h, cmp, node, value, res) ==
    IF node = NULL THEN res
    ELSE IF comp(cmp, h[node].m_value, value)
    THEN lower_bound(h, cmp, h[node].m_right, value, res)
    ELSE lower_bound(h, cmp, h[node].m_left, value, node)

RECURSIVE upper_bound(_, _, _, _, _)
upper_bound(h, cmp, node, value, res) ==
    IF node = NULL THEN res
    ELSE IF comp(cmp, value, h[node].m_value)
    THEN upper_bound(h, cmp, h[node].m_left, value, node)
    ELSE upper_bound(h, cmp, h[node].m_right, value, res)

\* RbstTree::RbstTree(comp, tree = NULL)
RbstTree(h) == RbstNode(h, 0, NULL, NULL, NULL)

\* RbstTree::root()
root(h, tree) == h[tree].m_left

\* m_left = node.insert(m_left, this, *this, rng)
insertedRoot(sub, tree) ==
    Result([sub.h EXCEPT ![tree].m_left = sub.ret], sub.ret, sub.ds)

\* RbstTree::insert(node, rng)
Tree_insert(h, cmp, tree, node) ==
    {insertedRoot(sub, tree) :
       sub \in insert([h EXCEPT ![tree].m_size = @ + 1], cmp, node,
                      h[tree].m_left, tree, <<>>)}

\* Faulty variant of Tree_swap: the sizes are not exchanged.
Tree_swap_roots(h, tree, other) ==
    With([h EXCEPT ![tree].m_left = h[other].m_left, ![other].m_left = h[tree].m_left],
         LAMBDA h1 :
           With(IF h1[tree].m_left # NULL
                THEN [h1 EXCEPT ![h1[tree].m_left].m_parent = tree] ELSE h1,
                LAMBDA h2 :
                  IF h2[other].m_left # NULL
                  THEN [h2 EXCEPT ![h2[other].m_left].m_parent = other] ELSE h2))

\* Faulty variant of Tree_swap: the data roots keep their old parent links.
Tree_swap_unparented(h, tree, other) ==
    [h EXCEPT ![tree].m_left = h[other].m_left, ![other].m_left = h[tree].m_left,
              ![tree].m_size = h[other].m_size, ![other].m_size = h[tree].m_size]

\* RbstTree::swap(other), the comparators apart.
Tree_swap(h, tree, other) ==
    With([h EXCEPT ![tree].m_left = h[other].m_left, ![other].m_left = h[tree].m_left,
                   ![tree].m_size = h[other].m_size, ![other].m_size = h[tree].m_size],
         LAMBDA h1 :
           With(IF h1[tree].m_left # NULL
                THEN [h1 EXCEPT ![h1[tree].m_left].m_parent = tree] ELSE h1,
                LAMBDA h2 :
                  IF h2[other].m_left # NULL
                  THEN [h2 EXCEPT ![h2[other].m_left].m_parent = other] ELSE h2))

\* RbstTree::set_root(node)
set_root(h, tree, node) ==
    IF node # NULL
    THEN [h EXCEPT ![node].m_parent = tree, ![tree].m_left = node,
                   ![tree].m_size = 1 + size(h, node)]
    ELSE [h EXCEPT ![tree].m_left = node, ![tree].m_size = 1 + size(h, node)]

\* Faulty variant of Tree_upper_bound: it answers as lower_bound does.
Tree_upper_bound_as_lower(h, cmp, tree, v) ==
    lower_bound(h, cmp, root(h, tree), v, tree)

Tree_find(h, cmp, tree, v)        == find(h, cmp, root(h, tree), v, tree)
Tree_lower_bound(h, cmp, tree, v) == lower_bound(h, cmp, root(h, tree), v, tree)
Tree_upper_bound(h, cmp, tree, v) == upper_bound(h, cmp, root(h, tree), v, tree)

(***************************************************************************)
(* The container (RbstSet)                                                 *)
(***************************************************************************)
\* m_node_alloc.allocate(1): the lowest address not handed out (first fit).
allocate(alloc) == CHOOSE n \in Nodes \ alloc : \A m \in Nodes \ alloc : n <= m

\* RbstSet::begin() and RbstSet::end()
begin(h, c) == first(h, TreeOf(c))
end(c)      == TreeOf(c)

\* RbstSet::empty() and RbstSet::size()
empty(h, c)    == root(h, TreeOf(c)) = NULL
Set_size(h, c) == h[TreeOf(c)].m_size - 1

\* The nodes of the subtree rooted at n, by child links alone.
RECURSIVE Subtree(_, _)
Subtree(h, n) ==
    IF n = NULL THEN {} ELSE {n} \cup Subtree(h, h[n].m_left) \cup Subtree(h, h[n].m_right)

\* The element positions of container c, and its positions with end() included.
Elements(h, c)  == Subtree(h, root(h, TreeOf(c)))
Positions(h, c) == Elements(h, c) \cup {end(c)}

\* Faulty variant of clone: the subtree itself is handed back, not a copy.
clone_shared(h, alloc, node, parent) == [h |-> h, alloc |-> alloc, ret |-> node]

\* RbstSet::clone(node, parent): yields [h, alloc, ret].
RECURSIVE clone(_, _, _, _)
clone(h, alloc, node, parent) ==
    IF node = NULL THEN [h |-> h, alloc |-> alloc, ret |-> NULL]
    ELSE With(allocate(alloc), LAMBDA copy :
         With(clone(h, alloc \cup {copy}, h[node].m_left, copy), LAMBDA l :
         With(clone(l.h, l.alloc, h[node].m_right, copy), LAMBDA r :
           [h |-> [r.h EXCEPT ![copy] =
                       RbstNode(r.h, h[node].m_value, l.ret, r.ret, parent)],
            alloc |-> r.alloc, ret |-> copy])))

\* RbstSet::clone(node, parent) when m_node_alloc.allocate(1) throws at the
\* call after n successful ones: yields [h, alloc, ret, n, thrown], n being
\* the successful allocations still to come.  Nothing catches the exception,
\* so the nodes allocated before it stay allocated; the node whose children
\* were being cloned is raw memory, its constructor has not run.
RECURSIVE cloneThrowing(_, _, _, _, _)
cloneThrowing(h, alloc, node, parent, n) ==
    IF node = NULL
    THEN [h |-> h, alloc |-> alloc, ret |-> NULL, n |-> n, thrown |-> FALSE]
    ELSE IF n = 0
    THEN [h |-> h, alloc |-> alloc, ret |-> NULL, n |-> 0, thrown |-> TRUE]
    ELSE With(allocate(alloc), LAMBDA copy :
         With(cloneThrowing(h, alloc \cup {copy}, h[node].m_left, copy, n - 1), LAMBDA l :
           IF l.thrown THEN l
           ELSE With(cloneThrowing(l.h, l.alloc, h[node].m_right, copy, l.n), LAMBDA r :
                  IF r.thrown THEN r
                  ELSE [h |-> [r.h EXCEPT ![copy] =
                                  RbstNode(r.h, h[node].m_value, l.ret, r.ret, parent)],
                        alloc |-> r.alloc, ret |-> copy, n |-> r.n,
                        thrown |-> FALSE])))

\* RbstSet::free(node): yields [h, alloc].
RECURSIVE free(_, _, _)
free(h, alloc, node) ==
    IF node = NULL THEN [h |-> h, alloc |-> alloc]
    ELSE With(free(h, alloc, h[node].m_left), LAMBDA l :
         With(free(l.h, l.alloc, h[node].m_right), LAMBDA r :
           [h |-> [r.h EXCEPT ![node] = Unused], alloc |-> r.alloc \ {node}]))

\* RbstSet::clear(): yields [h, alloc].
clear(h, alloc, c) ==
    With(free(h, alloc, root(h, TreeOf(c))), LAMBDA f :
      [h |-> set_root(f.h, TreeOf(c), NULL), alloc |-> f.alloc])

\* node->~node_type(); m_node_alloc.deallocate(node, 1)
released(e, alloc, pos) ==
    [h |-> [e.h EXCEPT ![pos] = Unused], alloc |-> alloc \ {pos}, ds |-> e.ds]

\* Faulty variant of Set_erase: the key of the next element is moved into
\* the node at pos and the next element's node is the one removed.
Set_erase_by_copy(h, alloc, pos, ds) ==
    IF next(h, pos) \in Trees
    THEN {released(e, alloc, pos) : e \in erase(h, pos, ds)}
    ELSE {released(e, alloc, next(h, pos)) :
            e \in erase([h EXCEPT ![pos].m_value = h[next(h, pos)].m_value],
                        next(h, pos), ds)}

\* RbstSet::erase(iterator pos): the outcomes [h, alloc, ds].
Set_erase(h, alloc, pos, ds) ==
    {released(e, alloc, pos) : e \in erase(h, pos, ds)}

\* Faulty variant of Set_erase_range: the loop stops one element early.
RECURSIVE Set_erase_range_short(_, _, _, _, _)
Set_erase_range_short(h, alloc, pfirst, plast, ds) ==
    IF pfirst = plast \/ next(h, pfirst) = plast
    THEN {[h |-> h, alloc |-> alloc, ds |-> ds]}
    ELSE UNION {Set_erase_range_short(e.h, e.alloc, next(h, pfirst), plast, e.ds) :
                  e \in Set_erase(h, alloc, pfirst, ds)}

\* RbstSet::erase(first, last): erase(first++) until first = last.
RECURSIVE Set_erase_range(_, _, _, _, _)
Set_erase_range(h, alloc, pfirst, plast, ds) ==
    IF pfirst = plast THEN {[h |-> h, alloc |-> alloc, ds |-> ds]}
    ELSE UNION {Set_erase_range(e.h, e.alloc, next(h, pfirst), plast, e.ds) :
                  e \in Set_erase(h, alloc, pfirst, ds)}

\* Faulty variant of equal_range: the test compares the element with the key.
equal_range_reversed(h, cmp, c, key) ==
    With(Tree_lower_bound(h, cmp, TreeOf(c), key), LAMBDA lo :
      <<lo, IF lo # end(c) /\ ~comp(cmp, h[lo].m_value, key) THEN next(h, lo) ELSE lo>>)

\* RbstSet::equal_range(key): the pair <<lo, hi>>.
equal_range(h, cmp, c, key) ==
    With(Tree_lower_bound(h, cmp, TreeOf(c), key), LAMBDA lo :
      <<lo, IF lo # end(c) /\ ~comp(cmp, key, h[lo].m_value) THEN next(h, lo) ELSE lo>>)

\* Faulty variant of atAllocation: the size was counted before the allocation.
atAllocation_counted(h, tree) == [h EXCEPT ![tree].m_size = @ + 1]

\* RbstSet::insert: the memory when m_node_alloc.allocate(1) is called.  Only
\* m_tree.find(value) has run, which writes nothing.
atAllocation(h, tree) == h

\* rbst_check_structure(node, parent): the index argument only numbers the
\* nodes in the message written to os.
RECURSIVE rbst_check_structure(_, _, _)
rbst_check_structure(h, node, parent) ==
    IF node = NULL THEN TRUE
    ELSE /\ h[node].m_left # NULL => rbst_check_structure(h, h[node].m_left, node)
         /\ h[node].m_parent = parent
         /\ h[node].m_size = 1 + size(h, h[node].m_left) + size(h, h[node].m_right)
         /\ h[node].m_right # NULL => rbst_check_structure(h, h[node].m_right, node)

\* rbst_check_values(node, comp)
RECURSIVE rbst_check_values(_, _, _)
rbst_check_values(h, cmp, node) ==
    IF node = NULL THEN TRUE
    ELSE /\ h[node].m_left # NULL => rbst_check_values(h, cmp, h[node].m_left)
         /\ ~(h[node].m_left # NULL
              /\ comp(cmp, h[node].m_value, h[h[node].m_left].m_value))
         /\ ~(h[node].m_right # NULL
              /\ comp(cmp, h[h[node].m_right].m_value, h[node].m_value))
         /\ h[node].m_right # NULL => rbst_check_values(h, cmp, h[node].m_right)

\* The record of a public call: the container, the other container (swap,
\* copy, assignment), the key, the positions passed, the position and the
\* number returned, and the number of values taken from the random source.
Call(op, c, d, k, p, q, ret, n, draws) ==
    [op |-> op, c |-> c, d |-> d, k |-> k, p |-> p, q |-> q,
     ret |-> ret, n |-> n, draws |-> draws]

(***************************************************************************)
(* State machine.  A public call is made when no call is pending; its      *)
(* record stays in `call` until Return consumes it.                        *)
(***************************************************************************)
Idle == Call("none", "a", "a", 0, NULL, NULL, NULL, 0, 0)

\* RbstSet a(comp): container "a" exists and is empty, "b" does not exist yet.
\* Comparator is a template argument, one type for all containers of a
\* program: m_comp[c] of a container not yet constructed holds the
\* comparator its constructor will store.
Init ==
    \E cmp \in Comparators :
        /\ mem = [x \in Addr |-> IF x = TreeOf("a") THEN RbstTree([y \in Addr |-> Unused])
                                 ELSE Unused]
        /\ live = [c \in Sets |-> c = "a"]
        /\ m_comp = [c \in Sets |-> cmp]
        /\ allocated = {}
        /\ reference = [c \in Sets |-> {}]
        /\ call = Call("construct", "a", "a", 0, NULL, NULL, NULL, 0, 0)

\* The caller takes the result of the last call.
Return ==
    /\ call # Idle
    /\ call' = Idle
    /\ UNCHANGED <<mem, live, m_comp, allocated, reference>>

\* explicit RbstSet(comp, alloc, rng)
Construct(c) ==
    /\ call = Idle
    /\ ~live[c]
    /\ mem' = [mem EXCEPT ![TreeOf(c)] = RbstTree(mem)]
    /\ live' = [live EXCEPT ![c] = TRUE]
    /\ reference' = [reference EXCEPT ![c] = {}]
    /\ call' = Call("construct", c, c, 0, NULL, NULL, NULL, 0, 0)
    /\ UNCHANGED <<m_comp, allocated>>

\* RbstSet(const RbstSet &that), every allocation succeeding.
CopyConstruct(c, that) ==
    /\ call = Idle
    /\ ~live[c] /\ live[that]
    /\ Cardinality(Nodes \ allocated) >= Set_size(mem, that)
    /\ \E cl \in {clone([mem EXCEPT ![TreeOf(c)] = RbstTree(mem)], allocated,
                          root(mem, TreeOf(that)), NULL)} :
          /\ mem' = set_root(cl.h, TreeOf(c), cl.ret)
          /\ allocated' = cl.alloc
    /\ live' = [live EXCEPT ![c] = TRUE]
    /\ m_comp' = [m_comp EXCEPT ![c] = m_comp[that]]
    /\ reference' = [reference EXCEPT ![c] = reference[that]]
    /\ call' = Call("copy", c, that, 0, NULL, NULL, NULL, 0, 0)

\* ~RbstSet()
Destroy(c) ==
    /\ call = Idle
    /\ live[c]
    /\ \E cl \in {clear(mem, allocated, c)} :
          /\ mem' = [cl.h EXCEPT ![TreeOf(c)] = Unused]
          /\ allocated' = cl.alloc
    /\ live' = [live EXCEPT ![c] = FALSE]
    /\ reference' = [reference EXCEPT ![c] = {}]
    /\ call' = Call("destroy", c, c, 0, NULL, NULL, NULL, 0, 0)
    /\ UNCHANGED m_comp

\* RbstSet &operator=(const RbstSet &that), every allocation succeeding.
Assign(c, that) ==
    /\ call = Idle
    /\ live[c] /\ live[that]
    /\ IF c # that
       THEN /\ Cardinality(Nodes \ allocated) + Set_size(mem, c) >= Set_size(mem, that)
            /\ \E cl \in {clear(mem, allocated, c)} :
               \E cp \in {clone(cl.h, cl.alloc, root(cl.h, TreeOf(that)), NULL)} :
                  /\ mem' = set_root(cp.h, TreeOf(c), cp.ret)
                  /\ allocated' = cp.alloc
            /\ m_comp' = [m_comp EXCEPT ![c] = m_comp[that]]
            /\ reference' = [reference EXCEPT ![c] = reference[that]]
       ELSE UNCHANGED <<mem, allocated, m_comp, reference>>
    /\ call' = Call("assign", c, that, 0, NULL, NULL, NULL, 0, 0)
    /\ UNCHANGED live

\* void clear()
Clear(c) ==
    /\ call = Idle
    /\ live[c]
    /\ \E cl \in {clear(mem, allocated, c)} :
          /\ mem' = cl.h
          /\ allocated' = cl.alloc
    /\ reference' = [reference EXCEPT ![c] = {}]
    /\ call' = Call("clear", c, c, 0, NULL, NULL, NULL, 0, 0)
    /\ UNCHANGED <<live, m_comp>>

\* std::pair<iterator,bool> insert(const value_type &value), the allocation
\* succeeding.
Insert(c, value) ==
    /\ call = Idle
    /\ live[c]
    /\ \E node \in {Tree_find(mem, m_comp[c], TreeOf(c), value)} :
          IF node # TreeOf(c)
          THEN /\ call' = Call("insert", c, c, value, NULL, NULL, node, 0, 0)
               /\ UNCHANGED <<mem, allocated>>
          ELSE /\ allocated # Nodes
               /\ \E new_node \in {allocate(allocated)} :
                    \E ins \in Tree_insert([mem EXCEPT ![new_node] =
                                               RbstNode(mem, value, NULL, NULL, NULL)],
                                           m_comp[c], TreeOf(c), new_node) :
                        /\ mem' = ins.h
                        /\ allocated' = allocated \cup {new_node}
                        /\ call' = Call("insert", c, c, value, NULL, NULL,
                                        new_node, 1, Len(ins.ds))
    /\ reference' = [reference EXCEPT ![c] = @ \cup {value}]
    /\ UNCHANGED <<live, m_comp>>

\* insert(value) when m_node_alloc.allocate(1) throws std::bad_alloc.
InsertNoMemory(c, value) ==
    /\ call = Idle
    /\ live[c]
    /\ Tree_find(mem, m_comp[c], TreeOf(c), value) = TreeOf(c)
    /\ mem' = atAllocation(mem, TreeOf(c))
    /\ call' = Call("bad_alloc", c, c, value, NULL, NULL, NULL, 0, 0)
    /\ UNCHANGED <<live, m_comp, allocated, reference>>

\* void erase(iterator pos), pos an element of the container.
ErasePos(c, pos) ==
    /\ call = Idle
    /\ live[c]
    /\ pos \in Elements(mem, c)
    /\ \E e \in Set_erase(mem, allocated, pos, <<>>) :
          /\ mem' = e.h
          /\ allocated' = e.alloc
          /\ call' = Call("erase_pos", c, c, mem[pos].m_value, pos, NULL,
                          NULL, 0, Len(e.ds))
    /\ reference' = [reference EXCEPT ![c] = @ \ {mem[pos].m_value}]
    /\ UNCHANGED <<live, m_comp>>

\* void erase(iterator first, iterator last), first <= last in the container.
EraseRange(c, pfirst, plast) ==
    /\ call = Idle
    /\ live[c]
    /\ pfirst \in Positions(mem, c) /\ plast \in Positions(mem, c)
    /\ index(mem, pfirst) <= index(mem, plast)
    /\ \E e \in Set_erase_range(mem, allocated, pfirst, plast, <<>>) :
          /\ mem' = e.h
          /\ allocated' = e.alloc
          /\ call' = Call("erase_range", c, c, 0, pfirst, plast, NULL,
                          index(mem, plast) - index(mem, pfirst), Len(e.ds))
          /\ reference' = [reference EXCEPT ![c] =
                 @ \ {mem[x].m_value : x \in allocated \ e.alloc}]
    /\ UNCHANGED <<live, m_comp>>

\* size_type erase(const key_type &key)
EraseKey(c, key) ==
    /\ call = Idle
    /\ live[c]
    /\ \E it \in {Tree_find(mem, m_comp[c], TreeOf(c), key)} :
          IF it = end(c)
          THEN /\ call' = Call("erase", c, c, key, NULL, NULL, NULL, 0, 0)
               /\ UNCHANGED <<mem, allocated>>
          ELSE \E e \in Set_erase(mem, allocated, it, <<>>) :
                  /\ mem' = e.h
                  /\ allocated' = e.alloc
                  /\ call' = Call("erase", c, c, key, NULL, NULL, NULL, 1, Len(e.ds))
    /\ reference' = [reference EXCEPT ![c] = @ \ {key}]
    /\ UNCHANGED <<live, m_comp>>

\* void swap(RbstSet &that)
Swap(c, that) ==
    /\ call = Idle
    /\ live[c] /\ live[that]
    /\ IF c # that
       THEN /\ mem' = Tree_swap(mem, TreeOf(c), TreeOf(that))
            /\ m_comp' = [m_comp EXCEPT ![c] = m_comp[that], ![that] = m_comp[c]]
            /\ reference' = [reference EXCEPT ![c] = reference[that],
                                              ![that] = reference[c]]
       ELSE UNCHANGED <<mem, m_comp, reference>>
    /\ call' = Call("swap", c, that, 0, NULL, NULL, NULL, 0, 0)
    /\ UNCHANGED <<live, allocated>>

\* RbstSet(const RbstSet &that) when an allocation of clone() throws after n
\* successful ones: the constructor does not complete, the container does
\* not come to exist.
CopyNoMemory(c, that, n) ==
    /\ call = Idle
    /\ ~live[c] /\ live[that]
    /\ n < Set_size(mem, that)
    /\ Cardinality(Nodes \ allocated) >= n
    /\ \E cl \in {cloneThrowing(mem, allocated, root(mem, TreeOf(that)), NULL, n)} :
          /\ cl.thrown
          /\ mem' = cl.h
          /\ allocated' = cl.alloc
    /\ call' = Call("copy_bad_alloc", c, that, 0, NULL, NULL, NULL, n, 0)
    /\ UNCHANGED <<live, m_comp, reference>>

\* operator=(const RbstSet &that) when an allocation of clone() throws after
\* n successful ones: clear() and set_comp() have run, set_root() has not.
AssignNoMemory(c, that, n) ==
    /\ call = Idle
    /\ live[c] /\ live[that] /\ c # that
    /\ n < Set_size(mem, that)
    /\ Cardinality(Nodes \ allocated) + Set_size(mem, c) >= n
    /\ \E cl \in {clear(mem, allocated, c)} :
       \E cp \in {cloneThrowing(cl.h, cl.alloc, root(cl.h, TreeOf(that)), NULL, n)} :
          /\ cp.thrown
          /\ mem' = cp.h
          /\ allocated' = cp.alloc
    /\ m_comp' = [m_comp EXCEPT ![c] = m_comp[that]]
    /\ reference' = [reference EXCEPT ![c] = {}]
    /\ call' = Call("assign_bad_alloc", c, that, 0, NULL, NULL, NULL, n, 0)
    /\ UNCHANGED live

Next ==
    \/ Return
    \/ \E c \in Sets : Construct(c)
    \/ \E c \in Sets, that \in Sets : CopyConstruct(c, that)
    \/ \E c \in Sets : Destroy(c)
    \/ \E c \in Sets, that \in Sets : Assign(c, that)
    \/ \E c \in Sets : Clear(c)
    \/ \E c \in Sets, value \in Keys : Insert(c, value)
    \/ \E c \in Sets, value \in Keys : InsertNoMemory(c, value)
    \/ \E c \in Sets, pos \in Nodes : ErasePos(c, pos)
    \/ \E c \in Sets, pfirst \in Addr, plast \in Addr : EraseRange(c, pfirst, plast)
    \/ \E c \in Sets, key \in Keys : EraseKey(c, key)
    \/ \E c \in Sets, that \in Sets : Swap(c, that)

Spec == Init /\ [][Next]_vars

\* Every public call, allocation failures in clone() included.
NextThrowing ==
    \/ Next
    \/ \E c \in Sets, that \in Sets, n \in 0 .. MaxNodes : CopyNoMemory(c, that, n)
    \/ \E c \in Sets, that \in Sets, n \in 0 .. MaxNodes : AssignNoMemory(c, that, n)

SpecThrowing == Init /\ [][NextThrowing]_vars

\* One container under insertions and erasures: the program of test7 and
\* test8, which drive a single RbstSet next to a reference std::set.
NextOne ==
    \/ Return
    \/ \E value \in Keys : Insert("a", value)
    \/ \E pos \in Nodes : ErasePos("a", pos)
    \/ \E pfirst \in Addr, plast \in Addr : EraseRange("a", pfirst, plast)
    \/ \E key \in Keys : EraseKey("a", key)

SpecOne == Init /\ [][NextOne]_vars

(***************************************************************************)
(* The consistency checker on arbitrary trees.  A tree of k nodes hangs     *)
(* below the root holder of container "a"; its child links form a tree, its *)
(* size fields, parent links and keys are any values.                       *)
(***************************************************************************)
\* The child links of the trees made of nodes 1 .. k with root 1: every
\* node but the root is the child of exactly one node, on one side.
TreeShapes(k) ==
    {s \in [m_left : [Nodes -> {NULL} \cup Nodes], m_right : [Nodes -> {NULL} \cup Nodes]] :
       /\ \A n \in Nodes :
            /\ s.m_left[n] # NULL => n < s.m_left[n] /\ s.m_left[n] <= k /\ n <= k
            /\ s.m_right[n] # NULL => n < s.m_right[n] /\ s.m_right[n] <= k /\ n <= k
            /\ s.m_left[n] # NULL => s.m_left[n] # s.m_right[n]
       /\ \A m \in 2 .. k :
            Cardinality({n \in Nodes : s.m_left[n] = m})
              + Cardinality({n \in Nodes : s.m_right[n] = m}) = 1}

\* The memory holding the tree of shape s with k nodes under the holder of
\* "a", with the given size fields, parent links and keys.
TreeMemory(k, s, sz, pa, val) ==
    [x \in Addr |->
       IF x = TreeOf("a")
       THEN [m_left |-> IF k = 0 THEN NULL ELSE 1, m_right |-> NULL,
             m_parent |-> NULL, m_size |-> sz[x], m_value |-> 0]
       ELSE IF x \in 1 .. k
       THEN [m_left |-> s.m_left[x], m_right |-> s.m_right[x],
             m_parent |-> pa[x], m_size |-> sz[x], m_value |-> val[x]]
       ELSE Unused]

\* The size fields and parent links the node constructors and the tree
\* operations would have left in a tree of shape s.
SizesOf(k, s) ==
    With(TreeMemory(k, s, [x \in Addr |-> 0], [x \in Addr |-> NULL], [x \in Addr |-> 0]),
         LAMBDA h : [x \in Addr |-> Cardinality(Subtree(h, x))])

ParentsOf(k, s) ==
    [x \in Addr |->
       IF x = 1 THEN TreeOf("a")
       ELSE IF x \in 2 .. k
       THEN CHOOSE n \in Nodes : s.m_left[n] = x \/ s.m_right[n] = x
       ELSE NULL]

\* Either the keys are all equal and the size fields and parent links are
\* arbitrary, or the size fields and parent links are right and the keys
\* are arbitrary.
InitCheck ==
    /\ \E k \in 0 .. MaxNodes : \E s \in TreeShapes(k) :
         /\ allocated = 1 .. k
         /\ \/ /\ m_comp = [c \in Sets |-> "less"]
               /\ \E sz \in [{TreeOf("a")} \cup (1 .. k) -> 1 .. MaxNodes + 1] :
                  \E pa \in [1 .. k -> {NULL, TreeOf("a")} \cup (1 .. k)] :
                     mem = TreeMemory(k, s, sz, pa, [x \in Addr |-> 1])
            \/ /\ \E cmp \in Comparators : m_comp = [c \in Sets |-> cmp]
               /\ \E val \in [1 .. k -> Keys] :
                     mem = TreeMemory(k, s, SizesOf(k, s), ParentsOf(k, s), val)
    /\ live = [c \in Sets |-> c = "a"]
    /\ reference = [c \in Sets |-> {}]
    /\ call = Idle

\* assert(rbst_check_structure(&tree)) in check(): the holder is the top
\* node.  The bool returned is kept in call.n as 1 or 0.
CheckStructure(c) ==
    /\ call = Idle
    /\ call' = Call("rbst_check_structure", c, c, 0, TreeOf(c), NULL, NULL,
                    IF rbst_check_structure(mem, TreeOf(c), NULL) THEN 1 ELSE 0, 0)
    /\ UNCHANGED <<mem, live, m_comp, allocated, reference>>

\* assert(rbst_check_values(tree.root(), tree.comp())) in check().
CheckValues(c) ==
    /\ call = Idle
    /\ call' = Call("rbst_check_values", c, c, 0, root(mem, TreeOf(c)), NULL, NULL,
                    IF rbst_check_values(mem, m_comp[c], root(mem, TreeOf(c)))
                    THEN 1 ELSE 0, 0)
    /\ UNCHANGED <<mem, live, m_comp, allocated, reference>>

NextCheck ==
    \/ CheckStructure("a")
    \/ CheckValues("a")

SpecCheck == InitCheck /\ [][NextCheck]_vars

(***************************************************************************)
(* Any tree satisfying I1 and I2 under the calls of the node interface.     *)
(* The tree hangs below the root holder of container "a"; its size fields   *)
(* and parent links are right, its keys are any values, in any order.       *)
(***************************************************************************)
InitTrees ==
    /\ \E cmp \in Comparators : m_comp = [c \in Sets |-> cmp]
    /\ \E k \in 0 .. MaxNodes : \E s \in TreeShapes(k) :
         /\ allocated = 1 .. k
         /\ \E val \in [1 .. k -> Keys] :
               mem = TreeMemory(k, s, SizesOf(k, s), ParentsOf(k, s), val)
    /\ live = [c \in Sets |-> c = "a"]
    /\ reference = [c \in Sets |-> {}]
    /\ call = Idle

\* The distances offset() is called with, and the calls followed at most.
Distances  == (0 - (MaxNodes + 1)) .. (MaxNodes + 1)
OffsetFuel == 2 * MaxNodes + 4

\* One call on the tree drawn: every tree of up to MaxNodes nodes is drawn.
NextTrees ==
    \/ \E value \in Keys : Insert("a", value)
    \/ \E pos \in Addr : ErasePos("a", pos)

SpecTrees == InitTrees /\ [][NextTrees]_vars

(***************************************************************************)
(* Reference notions the properties are stated against.  They use child    *)
(* links and key comparisons only, none of the operations under test.      *)
(***************************************************************************)
LiveSets == {c \in Sets : live[c]}

\* The keys stored in the subtree rooted at n.
KeysOf(h, n) == {h[x].m_value : x \in Subtree(h, n)}

\* The keys held by container c.
Contents(h, c) == KeysOf(h, root(h, TreeOf(c)))

\* I1 at node n: the size field counts the node and both subtrees.
I1(h, n) == h[n].m_size = 1 + size(h, h[n].m_left) + size(h, h[n].m_right)

\* I2 at node n: each child's parent link is n.
I2(h, n) ==
    /\ h[n].m_left # NULL => h[h[n].m_left].m_parent = n
    /\ h[n].m_right # NULL => h[h[n].m_right].m_parent = n

\* I3 at node n: no key of the left subtree is greater than the node's key,
\* no key of the right subtree is less.
I3(h, cmp, n) ==
    /\ \A k \in KeysOf(h, h[n].m_left) : ~comp(cmp, h[n].m_value, k)
    /\ \A k \in KeysOf(h, h[n].m_right) : ~comp(cmp, k, h[n].m_value)

\* The keys of S in increasing order under cmp.
RECURSIVE Sorted(_, _)
Sorted(S, cmp) ==
    IF S = {} THEN <<>>
    ELSE With(CHOOSE x \in S : \A y \in S : ~comp(cmp, y, x),
              LAMBDA x : <<x>> \o Sorted(S \ {x}, cmp))

\* The nodes of S in increasing order of their keys under cmp.
RECURSIVE SortedNodes(_, _, _)
SortedNodes(h, cmp, S) ==
    IF S = {} THEN <<>>
    ELSE With(CHOOSE x \in S : \A y \in S : ~comp(cmp, h[y].m_value, h[x].m_value),
              LAMBDA x : <<x>> \o SortedNodes(h, cmp, S \ {x}))

\* The positions of container c in rank order: its elements by increasing
\* key, then end().  The position of rank r is InOrder(h, cmp, c)[r + 1].
InOrder(h, cmp, c) == SortedNodes(h, cmp, Elements(h, c)) \o <<end(c)>>

\* The rank of position p, and the position of rank r (absent when there is
\* none), in the rank order ord.
Rank(ord, p)   == (CHOOSE i \in 1 .. Len(ord) : ord[i] = p) - 1
AtRank(ord, r) == IF 0 <= r /\ r < Len(ord) THEN ord[r + 1] ELSE NULL

Reverse(s) == [i \in 1 .. Len(s) |-> s[Len(s) + 1 - i]]

\* The values met from `it` up to `last` by operator++ (get_contents in the tests).
RECURSIVE Forward(_, _, _)
Forward(h, it, plast) ==
    IF it = plast THEN <<>> ELSE <<h[it].m_value>> \o Forward(h, next(h, it), plast)

\* The values met by a reverse_iterator whose base runs from `base` down to
\* `pfirst`: each dereference reads the element before the base.
RECURSIVE Backward(_, _, _)
Backward(h, base, pfirst) ==
    IF base = pfirst THEN <<>>
    ELSE <<h[previous(h, base)].m_value>> \o Backward(h, previous(h, base), pfirst)

\* RbstSetIterator: operator-, operator<, operator<=, operator>, operator>=
it_minus(h, p, q) == index(h, p) - index(h, q)
it_lt(h, p, q)    == index(h, p) < index(h, q)
it_gt(h, p, q)    == index(h, p) > index(h, q)
it_le(h, p, q)    == p = q \/ index(h, p) <= index(h, q)
it_ge(h, p, q)    == p = q \/ index(h, p) >= index(h, q)

(***************************************************************************)
(* Properties                                                              *)
(***************************************************************************)
\* C1: after any sequence of container operations, whatever the random
\* source returned, every node reachable from a container's root holder
\* (the holder included, so the data root's parent is the holder) has a size
\* field equal to one plus the sizes of its children (I1), and each of its
\* children has it as parent (I2).
C1_SizeAndParentLinks ==
    \A c \in LiveSets :
        \A n \in Subtree(mem, TreeOf(c)) : I1(mem, n) /\ I2(mem, n)

\* An erase that had to join two subtrees, with a draw, has left two elements.
C1_Witness ==
    /\ call.op \in {"erase", "erase_pos"}
    /\ call.draws >= 1
    /\ Set_size(mem, call.c) >= 2
    /\ C1_SizeAndParentLinks

\* C2: after any sequence of insertions and erasures, whatever the random
\* source returned, every node is ordered against the whole of its subtrees:
\* no key of its left subtree is greater than its key and no key of its right
\* subtree is less, under the container's comparator (I3).
C2_SearchOrder ==
    \A c \in LiveSets :
        \A n \in Elements(mem, c) : I3(mem, m_comp[c], n)

\* An insertion stopped above a subtree and split it on both sides of the key.
C2_Witness ==
    /\ call.op = "insert" /\ call.n = 1 /\ call.draws >= 1
    /\ mem[call.ret].m_left # NULL /\ mem[call.ret].m_right # NULL
    /\ I3(mem, m_comp[call.c], call.ret)

\* C3: the container refines the reference set: iterating from begin() to
\* end() yields exactly the reference keys, each once, in strictly increasing
\* order under the comparator; iterating from rbegin() to rend() yields the
\* reverse; so under operator< the first element is the least key and the
\* last the greatest.
C3_IterationMatchesReference ==
    \A c \in LiveSets :
        /\ Forward(mem, begin(mem, c), end(c)) = Sorted(reference[c], m_comp[c])
        /\ Backward(mem, end(c), begin(mem, c))
             = Reverse(Sorted(reference[c], m_comp[c]))
        /\ (m_comp[c] = "less" /\ reference[c] # {}) =>
             /\ \A k \in reference[c] : mem[begin(mem, c)].m_value <= k
             /\ \A k \in reference[c] : k <= mem[previous(mem, end(c))].m_value

\* Three keys are iterated in an order that differs from the order of the
\* integers, after an erasure or an insertion.
C3_Witness ==
    /\ call.op \in {"insert", "erase"} /\ call.n = 1
    /\ m_comp[call.c] = "IntCompare"
    /\ Len(Forward(mem, begin(mem, call.c), end(call.c))) >= 3
    /\ Forward(mem, begin(mem, call.c), end(call.c))[1] = 1
    /\ Backward(mem, end(call.c), begin(mem, call.c))[1] # 1

\* C4: a container's root holder has no right child and no parent, and its
\* size field is one more than the number of elements; so size() is the
\* number of elements and empty() holds exactly when size() is 0.
C4_RootHolder ==
    \A c \in LiveSets :
        /\ mem[TreeOf(c)].m_right = NULL
        /\ mem[TreeOf(c)].m_parent = NULL
        /\ mem[TreeOf(c)].m_size = 1 + Cardinality(Elements(mem, c))
        /\ Set_size(mem, c) = Cardinality(Elements(mem, c))
        /\ Set_size(mem, c) = Cardinality(reference[c])
        /\ empty(mem, c) <=> Set_size(mem, c) = 0

\* Two containers of different sizes, one of them empty, were swapped.
C4_Witness ==
    /\ call.op = "swap" /\ call.c # call.d
    /\ empty(mem, call.c) /\ Set_size(mem, call.d) >= 2
    /\ mem[TreeOf(call.d)].m_size = 1 + Cardinality(Elements(mem, call.d))

\* A step that is a call of insert(value) on container call'.c.
InsertStep(c, k) ==
    /\ call'.n \in {0, 1}
    /\ call'.n = 0 <=> k \in Contents(mem, c)
    /\ call'.n = 0 =>
         /\ mem' = mem /\ allocated' = allocated
         /\ Set_size(mem', c) = Set_size(mem, c)
         /\ call'.draws = 0
         /\ call'.ret \in Elements(mem, c)
         /\ mem[call'.ret].m_value = k
    /\ call'.n = 1 =>
         /\ Set_size(mem', c) = Set_size(mem, c) + 1
         /\ call'.ret \in Elements(mem', c) \ Elements(mem, c)
         /\ mem'[call'.ret].m_value = k
         /\ Contents(mem', c) = Contents(mem, c) \cup {k}

\* C5: insert(key) returns inserted = false exactly when the key is already
\* in the container; then the memory (shape, sizes, links), the container
\* size and the random source are as before, no value is drawn, and the
\* position returned is the element that holds the key.  Otherwise it
\* returns inserted = true, the size grows by one and the position returned
\* is the new element, which holds the key.
C5_Insert ==
    [][call'.op = "insert" => InsertStep(call'.c, call'.k)]_vars

\* insert() found the key among two elements or more and inserted nothing.
C5_Witness ==
    /\ call.op = "insert" /\ call.n = 0
    /\ Set_size(mem, call.c) >= 2
    /\ mem[call.ret].m_value = call.k

\* A step that is a call of erase(key) on container call'.c.
EraseStep(c, k) ==
    /\ call'.n \in {0, 1}
    /\ call'.n = 0 <=> k \notin Contents(mem, c)
    /\ call'.n = 0 =>
         /\ mem' = mem /\ allocated' = allocated
         /\ call'.draws = 0
    /\ call'.n = 1 =>
         /\ Set_size(mem', c) = Set_size(mem, c) - 1
         /\ Cardinality(Elements(mem', c)) = Cardinality(Elements(mem, c)) - 1
         /\ Contents(mem', c) = Contents(mem, c) \ {k}
         /\ Tree_find(mem', m_comp[c], TreeOf(c), k) = end(c)
    /\ \A d \in LiveSets \ {c} : Contents(mem', d) = Contents(mem, d)

\* C6: erase(key) returns 0 and changes nothing when the key is absent;
\* otherwise it returns 1, size() drops by one, that key and no other is
\* removed, and find(key) is end() afterwards.
C6_EraseKey ==
    [][call'.op = "erase" => EraseStep(call'.c, call'.k)]_vars

\* erase(key) removed a node with two children and left two elements.
C6_Witness ==
    /\ call.op = "erase" /\ call.n = 1 /\ call.draws = 1
    /\ Set_size(mem, call.c) = 2
    /\ call.k \notin Contents(mem, call.c)

\* The offsets tried from a position of a container of n elements.
Offsets(n) == (0 - n - 2) .. (n + 2)

\* Rank consistency of a container of n elements whose rank order is ord.
RankConsistent(h, c, ord, n) ==
    /\ \A i \in 0 .. (n - 1) :
         /\ at(h, TreeOf(c), i) = offset(h, begin(h, c), i)
         /\ at(h, TreeOf(c), i) = AtRank(ord, i)
         /\ index(h, at(h, TreeOf(c), i)) = i
    /\ index(h, end(c)) = n
    /\ \A i \in 1 .. Len(ord), j \in 1 .. Len(ord) :
         /\ it_minus(h, ord[i], ord[j]) = i - j
         /\ it_lt(h, ord[i], ord[j]) <=> i < j
         /\ it_le(h, ord[i], ord[j]) <=> i <= j
         /\ it_gt(h, ord[i], ord[j]) <=> i > j
         /\ it_ge(h, ord[i], ord[j]) <=> i >= j

\* C7: ranks are consistent.  In a container of n elements, at(i) from the
\* root holder is begin() advanced by i and is the position of rank i, with
\* index() = i, for 0 <= i < n; index() of end() is n; for positions p and q,
\* p - q is rank(p) - rank(q), and <, <=, >, >= agree with the ranks.
C7_RankConsistency ==
    \A c \in LiveSets :
        RankConsistent(mem, c, InOrder(mem, m_comp[c], c), Set_size(mem, c))

\* The element of rank 1 is the right child of a node that is not the data
\* root: its index is found by climbing over a right link and a left link.
C7_Witness ==
    \E c \in LiveSets : \E p \in Elements(mem, c) :
        /\ mem[p].m_parent \in Elements(mem, c)
        /\ p = mem[mem[p].m_parent].m_right
        /\ mem[mem[p].m_parent].m_parent \in Elements(mem, c)
        /\ index(mem, p) = 1
        /\ at(mem, TreeOf(c), 1) = p

\* offset(a) from x gave y: when y exists, offset(b) from y is offset(a + b)
\* from x.
OffsetTwice(h, n, x, a, y) ==
    y # NULL => \A b \in Offsets(n) : offset(h, y, b) = offset(h, x, a + b)

\* offset() from the position x of rank r, in the rank order ord of a
\* container of n elements.
OffsetFrom(h, ord, n, x, r) ==
    /\ \A d \in Offsets(n) :
         offset(h, x, d) = IF 0 <= r + d /\ r + d <= n THEN AtRank(ord, r + d) ELSE NULL
    /\ offset(h, x, n - r) = ord[n + 1]
    /\ offset(h, x, 0) = x
    /\ offset(h, x, 1) = next(h, x)
    /\ offset(h, x, -1) = previous(h, x)
    /\ \A a \in Offsets(n) : OffsetTwice(h, n, x, a, offset(h, x, a))

\* offset() from every position of the rank order: ord[r + 1] has rank r.
OffsetFromAll(h, ord, n) ==
    \A r \in 0 .. n : OffsetFrom(h, ord, n, ord[r + 1], r)

\* C8: from a position x of rank r in a container of n elements, offset(d)
\* is the position of rank r + d when 0 <= r + d <= n (end() when r + d = n,
\* x when d = 0) and absent otherwise; offset(1) is next(), offset(-1) is
\* previous(); offset(a) then offset(b) is offset(a + b) when the
\* intermediate position exists.
C8_Offset ==
    \A c \in LiveSets :
        OffsetFromAll(mem, InOrder(mem, m_comp[c], c), Set_size(mem, c))

\* Three elements or more: begin() + n is end(), end() - n is begin(), and
\* one step further on either side there is no position.
C8_Witness ==
    \E c \in LiveSets :
        /\ Set_size(mem, c) >= 3
        /\ offset(mem, begin(mem, c), Set_size(mem, c)) = end(c)
        /\ offset(mem, end(c), 0 - Set_size(mem, c)) = begin(mem, c)
        /\ offset(mem, begin(mem, c), Set_size(mem, c) + 1) = NULL
        /\ offset(mem, end(c), 0 - Set_size(mem, c) - 1) = NULL

\* next() and previous() in a container of n elements whose rank order is ord.
Neighbours(h, c, ord, n) ==
    /\ \A r \in 0 .. (n - 1) :
         /\ next(h, ord[r + 1]) = ord[r + 2]
         /\ previous(h, ord[r + 1]) = AtRank(ord, r - 1)
    /\ n > 0 => next(h, ord[n]) = end(c)
    /\ n > 0 => previous(h, end(c)) = ord[n]
    /\ n > 0 => previous(h, ord[1]) = NULL
    /\ n = 0 => previous(h, end(c)) = NULL
    /\ next(h, end(c)) = NULL

\* C9: next() is the in-order successor and previous() the in-order
\* predecessor: next() of the last element is end(), previous() of end() is
\* the last element (absent in an empty container), previous() of the first
\* element and next() of end() are absent.
C9_NextPrevious ==
    \A c \in LiveSets :
        Neighbours(mem, c, InOrder(mem, m_comp[c], c), Set_size(mem, c))

\* The successor of an element is the leftmost node of its right subtree and
\* not its right child; the predecessor of that node is found by climbing.
C9_Witness ==
    \E c \in LiveSets : \E x \in Elements(mem, c) :
        /\ mem[x].m_right # NULL
        /\ mem[mem[x].m_right].m_left # NULL
        /\ next(mem, x) = mem[mem[x].m_right].m_left
        /\ previous(mem, mem[mem[x].m_right].m_left) = x

\* The keys looked up: those of the model, one below and one above.
Probes == (0 - 1) .. MaxKey

\* The first position of the rank order ord whose key satisfies Keep; it is
\* end(), the last of ord, when no element does.
FirstWhere(h, ord, Keep(_)) ==
    ord[CHOOSE i \in 1 .. Len(ord) :
          /\ i = Len(ord) \/ Keep(h[ord[i]].m_value)
          /\ \A j \in 1 .. (i - 1) : ~Keep(h[ord[j]].m_value)]

\* The three lookups of key k in a container whose rank order is ord.
LookupAgrees(h, cmp, c, ord, k) ==
    /\ Tree_find(h, cmp, TreeOf(c), k) = FirstWhere(h, ord, LAMBDA v : v = k)
    /\ Tree_lower_bound(h, cmp, TreeOf(c), k)
         = FirstWhere(h, ord, LAMBDA v : ~comp(cmp, v, k))
    /\ Tree_upper_bound(h, cmp, TreeOf(c), k)
         = FirstWhere(h, ord, LAMBDA v : comp(cmp, k, v))

\* C10: over the sorted contents, find(k) is the element equal to k if there
\* is one, lower_bound(k) the first element not less than k and
\* upper_bound(k) the first element greater than k; each is end() when
\* there is no such element.
C10_Lookup ==
    \A c \in LiveSets : \A k \in Probes :
        LookupAgrees(mem, m_comp[c], c, InOrder(mem, m_comp[c], c), k)

\* A key between two elements is absent: find is end(), both bounds are the
\* element after it; and a key that is present separates the two bounds.
C10_Witness ==
    \E c \in LiveSets : \E k \in Keys, j \in Keys :
        /\ k \notin Contents(mem, c)
        /\ Tree_find(mem, m_comp[c], TreeOf(c), k) = end(c)
        /\ Tree_lower_bound(mem, m_comp[c], TreeOf(c), k) \in Elements(mem, c)
        /\ Tree_lower_bound(mem, m_comp[c], TreeOf(c), k) # begin(mem, c)
        /\ Tree_upper_bound(mem, m_comp[c], TreeOf(c), k)
             = Tree_lower_bound(mem, m_comp[c], TreeOf(c), k)
        /\ j \in Contents(mem, c)
        /\ Tree_upper_bound(mem, m_comp[c], TreeOf(c), j)
             # Tree_lower_bound(mem, m_comp[c], TreeOf(c), j)

\* The bounds of key k and its equal_range in container c.
EqualRangeAgrees(h, cmp, c, k, lo, hi) ==
    /\ lo = hi <=> k \notin Contents(h, c)
    /\ equal_range(h, cmp, c, k) = <<lo, hi>>
    /\ Forward(h, equal_range(h, cmp, c, k)[1], equal_range(h, cmp, c, k)[2])
         = IF k \in Contents(h, c) THEN <<k>> ELSE <<>>

\* C11: for every key k, lower_bound(k) = upper_bound(k) exactly when k is
\* absent; equal_range(k) is the pair (lower_bound(k), upper_bound(k)); the
\* range it brackets holds the one element k when k is present and nothing
\* when k is absent.
C11_EqualRange ==
    \A c \in LiveSets : \A k \in Probes :
        EqualRangeAgrees(mem, m_comp[c], c, k,
                         Tree_lower_bound(mem, m_comp[c], TreeOf(c), k),
                         Tree_upper_bound(mem, m_comp[c], TreeOf(c), k))

\* equal_range of a present key that is neither the first nor the last
\* element, and of an absent key that falls before an element.
C11_Witness ==
    \E c \in LiveSets : \E k \in Keys, j \in Probes :
        /\ k \in Contents(mem, c) /\ j \notin Contents(mem, c)
        /\ equal_range(mem, m_comp[c], c, k)[1] # begin(mem, c)
        /\ equal_range(mem, m_comp[c], c, k)[2] # end(c)
        /\ equal_range(mem, m_comp[c], c, k)[2]
             = next(mem, equal_range(mem, m_comp[c], c, k)[1])
        /\ equal_range(mem, m_comp[c], c, j)[1] \in Elements(mem, c)
        /\ equal_range(mem, m_comp[c], c, j)[1] = equal_range(mem, m_comp[c], c, j)[2]

\* I1, I2 and I3 in container c, the root holder included for I1 and I2.
WellFormed(h, cmp, c) ==
    /\ \A n \in Subtree(h, TreeOf(c)) : I1(h, n) /\ I2(h, n)
    /\ \A n \in Elements(h, c) : I3(h, cmp, n)

\* Node n is the same object in h2 as in h1, with the same children; its
\* parent link is the same too unless it is the data root of holder `tree`.
SameNode(h1, h2, n, tree) ==
    /\ h2[n].m_left = h1[n].m_left /\ h2[n].m_right = h1[n].m_right
    /\ h2[n].m_size = h1[n].m_size /\ h2[n].m_value = h1[n].m_value
    /\ h2[n].m_parent = IF n = h2[tree].m_left THEN tree ELSE h1[n].m_parent

\* After the step, container c holds what container d held before it.
TakesOver(c, d) ==
    /\ root(mem', TreeOf(c)) = root(mem, TreeOf(d))
    /\ Elements(mem', c) = Elements(mem, d)
    /\ \A n \in Elements(mem, d) : SameNode(mem, mem', n, TreeOf(c))
    /\ Set_size(mem', c) = Set_size(mem, d)
    /\ mem'[TreeOf(c)].m_right = NULL /\ mem'[TreeOf(c)].m_parent = NULL
    /\ offset(mem', begin(mem', c), Set_size(mem', c)) = end(c)
    /\ WellFormed(mem', m_comp'[c], c)

\* A step that is a call of c.swap(d).
SwapStep(c, d) ==
    /\ allocated' = allocated /\ live' = live
    /\ \A n \in Nodes \ allocated : mem'[n] = mem[n]
    /\ IF c = d
       THEN mem' = mem /\ m_comp' = m_comp
       ELSE TakesOver(c, d) /\ TakesOver(d, c)

\* C12: a.swap(b) exchanges the contents of the two containers without
\* creating, destroying or rearranging a node: each container holds the node
\* objects, in the same shape, that the other held; the sizes are exchanged;
\* each data root's parent is its new root holder, so I1-I3 hold in both;
\* each container's end() is its own sentinel; a container swapped with
\* itself does not change.
C12_Swap ==
    [][call'.op = "swap" => SwapStep(call'.c, call'.d)]_vars

\* Two containers that both held elements, in different numbers, were swapped.
C12_Witness ==
    /\ call.op = "swap" /\ call.c # call.d
    /\ Set_size(mem, call.c) = 1 /\ Set_size(mem, call.d) = 2
    /\ mem[root(mem, TreeOf(call.c))].m_parent = TreeOf(call.c)
    /\ mem[root(mem, TreeOf(call.d))].m_parent = TreeOf(call.d)

\* Container d is in h2 what it was in h1: the same holder, the same nodes.
Untouched(h1, h2, d) ==
    /\ h2[TreeOf(d)] = h1[TreeOf(d)]
    /\ \A n \in Elements(h1, d) : h2[n] = h1[n]

\* After the step, container c is a deep clone of container d.
ClonedFrom(c, d) ==
    /\ Untouched(mem, mem', d)
    /\ Forward(mem', begin(mem', c), end(c)) = Forward(mem, begin(mem, d), end(d))
    /\ Set_size(mem', c) = Set_size(mem, d)
    /\ WellFormed(mem', m_comp'[c], c)
    /\ empty(mem', c) \/ mem'[root(mem', TreeOf(c))].m_parent = TreeOf(c)
    /\ Elements(mem', c) \cap Elements(mem', d) = {}
    /\ \A i \in 0 .. (Set_size(mem, d) - 1) :
         at(mem', TreeOf(c), i) # at(mem', TreeOf(d), i)

\* A step that is a copy construction or an assignment that returned, or an
\* insertion or erasure in one container next to the others.
CopyStep ==
    /\ call'.op = "copy" => ClonedFrom(call'.c, call'.d)
    /\ (call'.op = "assign" /\ call'.c # call'.d) => ClonedFrom(call'.c, call'.d)
    /\ (call'.op = "assign" /\ call'.c = call'.d) =>
         mem' = mem /\ allocated' = allocated /\ m_comp' = m_comp
    /\ call'.op \in {"insert", "erase", "erase_pos", "erase_range"} =>
         \A d \in LiveSets \ {call'.c} : Untouched(mem, mem', d)

Without(s, i, j) == SubSeq(s, 1, i) \o SubSeq(s, j + 1, Len(s))

\* A step that is a call of erase(p, q) on container c, whose rank order
\* before the call is ord, p of rank rp and q of rank rq.
EraseRangeStep(c, ord, p, q, rp, rq) ==
    /\ rp <= rq
    /\ Elements(mem', c) = Elements(mem, c) \ {ord[i] : i \in (rp + 1) .. rq}
    /\ allocated' = allocated \ {ord[i] : i \in (rp + 1) .. rq}
    /\ InOrder(mem', m_comp[c], c) = Without(ord, rp, rq)
    /\ Set_size(mem', c) = Set_size(mem, c) - (rq - rp)
    /\ q \in Positions(mem', c)
    /\ \A n \in Elements(mem', c) : mem'[n].m_value = mem[n].m_value
    /\ p = q => mem' = mem /\ call'.draws = 0
    /\ WellFormed(mem', m_comp[c], c)

\* C14: erase(first, last), for positions first <= last of one container,
\* removes the elements of rank rank(first) up to, not including, rank(last)
\* and no others: the size drops by rank(last) - rank(first), the element at
\* last (or end()) stays in place and keeps its identity, erase(first, first)
\* removes nothing, and I1-I3 hold afterwards whatever values are drawn.
C14_EraseRange ==
    [][call'.op = "erase_range" =>
         EraseRangeStep(call'.c, InOrder(mem, m_comp[call'.c], call'.c),
                        call'.p, call'.q,
                        Rank(InOrder(mem, m_comp[call'.c], call'.c), call'.p),
                        Rank(InOrder(mem, m_comp[call'.c], call'.c), call'.q))]_vars

\* Two elements were erased in front of a third, which is still there.
C14_Witness ==
    /\ call.op = "erase_range" /\ call.n = 2
    /\ call.q \in Elements(mem, call.c)
    /\ call.p \notin allocated
    /\ Set_size(mem, call.c) = 1

\* A step in which insert(k) on container c met an allocation failure.
FailedInsertStep(c, k) ==
    /\ k \notin Contents(mem, c)
    /\ mem' = mem /\ allocated' = allocated
    /\ Set_size(mem', c) = Set_size(mem, c)
    /\ Contents(mem', c) = Contents(mem, c)
    /\ call'.draws = 0 /\ call'.ret = NULL

\* C15: when the node allocation fails during insert(key) of a new key, the
\* failure reaches the caller and nothing has changed: the shape of the tree,
\* every size and parent field, the container size and the random source are
\* as before the call, the allocation coming before any draw and any write.
C15_InsertAllocationFailure ==
    [][call'.op = "bad_alloc" => FailedInsertStep(call'.c, call'.k)]_vars

\* An insertion of a new key into two elements met an allocation failure.
C15_Witness ==
    /\ call.op = "bad_alloc"
    /\ Set_size(mem, call.c) = 2
    /\ call.k \notin Contents(mem, call.c)
    /\ Cardinality(allocated) = 2


\* ---------------------------------------------------------------------------
\* C16  Node lifecycle balance.

\* Sum of size() over the containers of S.
RECURSIVE LiveSizes(_, _)
LiveSizes(h, S) ==
    IF S = {} THEN 0
    ELSE With(CHOOSE c \in S : TRUE, LAMBDA c :
           Set_size(h, c) + LiveSizes(h, S \ {c}))

\* C16: in every reachable state the number of node allocations not yet
\* released equals the sum of size() over all live containers; in
\* particular no allocation remains once every container is destroyed.
C16_LifecycleBalance ==
    Cardinality(allocated) = LiveSizes(mem, LiveSets)

\* A copy construction or an assignment has thrown out of clone() with
\* nodes already allocated.
C16_Leak ==
    /\ call.op \in {"copy_bad_alloc", "assign_bad_alloc"}
    /\ call.n > 0
    /\ Cardinality(allocated) > LiveSizes(mem, LiveSets)

\* ---------------------------------------------------------------------------
\* C17  The consistency checker verifies I1-I3.

\* The answer of rbst_check_structure is TRUE exactly when I1 and I2 hold at
\* the holder and at every node below it.
CheckStructureAgrees ==
    call.op = "rbst_check_structure" =>
        ((call.n = 1) <=> \A n \in Subtree(mem, TreeOf(call.c)) : I1(mem, n) /\ I2(mem, n))

\* The answer of rbst_check_values is TRUE exactly when I3 holds at every
\* node, whole subtrees compared.
CheckValuesAgrees ==
    call.op = "rbst_check_values" =>
        ((call.n = 1) <=> \A n \in Elements(mem, call.c) : I3(mem, m_comp[call.c], n))

\* C17: for every tree of valued nodes, reachable through the public
\* operations or not, rbst_check_structure returns true exactly when I1 and
\* I2 hold at every node and rbst_check_values returns true exactly when I3
\* holds at every node: every key of a node's whole left subtree is not
\* greater than the node's key, every key of its whole right subtree not less.
C17_CheckerVerifiesInvariants ==
    CheckStructureAgrees /\ CheckValuesAgrees

\* rbst_check_values has accepted a tree in which a key further down a
\* node's subtree is on the wrong side of the node's key.
C17_OrderViolationAccepted ==
    /\ call.op = "rbst_check_values"
    /\ call.n = 1
    /\ \E n \in Elements(mem, call.c) : ~I3(mem, m_comp[call.c], n)

\* ---------------------------------------------------------------------------
\* C19  Split postcondition.

\* The nodes of the subtree rooted at n in the order the child links give:
\* left subtree, node, right subtree.
RECURSIVE Walk(_, _)
Walk(h, n) ==
    IF n = NULL THEN <<>>
    ELSE Walk(h, h[n].m_left) \o <<n>> \o Walk(h, h[n].m_right)

\* I1-I3 hold at every node of the subtree rooted at n.
ValidSubtree(h, cmp, n) ==
    \A x \in Subtree(h, n) : I1(h, x) /\ I2(h, x) /\ I3(h, cmp, x)

\* The pivots a tree can be split by: a node outside every tree, newly
\* constructed with key k.
Pivots == Nodes \ allocated

\* The memory after split(*tree, *p, *p, compare) and std::swap(m_left,
\* m_right) on the new node p with key k.
SplitBy(h, cmp, p, k, tree) ==
    swapChildren(split([h EXCEPT ![p] = RbstNode(h, k, NULL, NULL, NULL)],
                       cmp, p, tree, p, p), p)

\* What C19 says of the memory h2 so obtained from h; l and r are the
\* children of p in h2.
SplitPost(h, h2, cmp, p, tree, l, r) ==
    /\ Subtree(h2, l) = {n \in Subtree(h, tree) : ~comp(cmp, h2[p].m_value, h[n].m_value)}
    /\ Subtree(h2, r) = {n \in Subtree(h, tree) : comp(cmp, h2[p].m_value, h[n].m_value)}
    /\ Subtree(h2, l) \cap Subtree(h2, r) = {}
    /\ Walk(h2, l) \o Walk(h2, r) = Walk(h, tree)
    /\ \A n \in Subtree(h, tree) : h2[n].m_value = h[n].m_value
    /\ ValidSubtree(h2, cmp, l) /\ ValidSubtree(h2, cmp, r)
    /\ l # NULL => h2[l].m_parent = p
    /\ r # NULL => h2[r].m_parent = p
    /\ (l = NULL) <=> (\A n \in Subtree(h, tree) : comp(cmp, h2[p].m_value, h[n].m_value))
    /\ (r = NULL) <=> (\A n \in Subtree(h, tree) : ~comp(cmp, h2[p].m_value, h[n].m_value))

SplitPostOf(h, h2, cmp, p, tree) ==
    SplitPost(h, h2, cmp, p, tree, h2[p].m_left, h2[p].m_right)

\* C19: for a subtree `tree` satisfying I1-I3 and a pivot node p, split with
\* lesser and greater both p, followed by the swap of p's children, leaves
\* p's left subtree holding exactly the nodes of `tree` not greater than p
\* and p's right subtree exactly those strictly greater; every node lands in
\* exactly one of the two, in its former relative order; both parts satisfy
\* I1-I3 with their roots' parent links set to p; an empty side is absent.
\* Every memory the program reaches is also there when no call is pending,
\* which is where split is applied to it.
C19_SplitPostcondition ==
    call = Idle =>
    \A c \in LiveSets : \A tree \in Elements(mem, c) :
      ValidSubtree(mem, m_comp[c], tree) =>
        \A p \in Pivots : \A k \in Keys :
          SplitPostOf(mem, SplitBy(mem, m_comp[c], p, k, tree), m_comp[c], p, tree)

\* Splitting one node off each side: p's children after the split.
BothSides(h2, p) == h2[p].m_left # NULL /\ h2[p].m_right # NULL

\* No call is pending, and a valid tree of two nodes is split by a pivot
\* whose key lies between its two keys: one node lands on each side.
C19_Witness ==
    /\ call = Idle /\ live["a"]
    /\ \E tree \in Elements(mem, "a"), p \in Pivots, k \in Keys :
         /\ mem[tree].m_size = 2
         /\ ValidSubtree(mem, m_comp["a"], tree)
         /\ BothSides(SplitBy(mem, m_comp["a"], p, k, tree), p)
         /\ SplitPostOf(mem, SplitBy(mem, m_comp["a"], p, k, tree), m_comp["a"], p, tree)

\* ---------------------------------------------------------------------------
\* C20  Join.

\* Every key of the subtree at l is not greater than every key of the
\* subtree at r.
NotGreater(h, cmp, l, r) ==
    \A x \in KeysOf(h, l) : \A y \in KeysOf(h, r) : ~comp(cmp, y, x)

\* The pairs of subtrees join may be given: two valid subtrees without a
\* common node, of one container or of two, or none on either side.
Joinable(h, cmp, l, r) ==
    /\ Subtree(h, l) \cap Subtree(h, r) = {}
    /\ ValidSubtree(h, cmp, l) /\ ValidSubtree(h, cmp, r)
    /\ NotGreater(h, cmp, l, r)

\* What C20 says of one outcome res of join(l, r) on memory h.
JoinPost(h, res, l, r) ==
    IF l = NULL \/ r = NULL
    THEN /\ res.ret = (IF l = NULL THEN r ELSE l)
         /\ res.h = h
         /\ res.ds = <<>>
    ELSE /\ Walk(res.h, res.ret) = Walk(h, l) \o Walk(h, r)
         /\ \A x \in Subtree(res.h, res.ret) :
              /\ res.h[x].m_value = h[x].m_value
              /\ I1(res.h, x)
              /\ I2(res.h, x)
         /\ Len(res.ds) >= 1
         /\ res.ds[1] \in 0 .. (size(h, l) + size(h, r) - 1)
         /\ res.ret \in {l, r}
         /\ res.ret = l <=> res.ds[1] < size(h, l)

\* Every value of [0, size(l) + size(r)) can be the one drawn first.
JoinDraws(h, outcomes, l, r) ==
    l # NULL /\ r # NULL =>
        {res.ds[1] : res \in outcomes} = 0 .. (size(h, l) + size(h, r) - 1)

\* C20: for two subtrees satisfying I1-I3, every key of `lesser` not greater
\* than every key of `greater`, join returns a tree whose nodes in order are
\* those of lesser followed by those of greater, the same node objects, in
\* which I1 holds at every node and every node below the returned root has
\* its parent link on the node it hangs from; with both present the root
\* returned is lesser's root exactly when the value drawn from
\* [0, size(lesser) + size(greater)) is below size(lesser), greater's root
\* otherwise; with either absent the other is returned, nothing is changed
\* and nothing is drawn.  Every memory the program reaches is also there
\* when no call is pending, which is where join is applied to it.
C20_Join ==
    call = Idle =>
    \A c \in LiveSets, d \in LiveSets :
      \A l \in Elements(mem, c) \cup {NULL}, r \in Elements(mem, d) \cup {NULL} :
        (m_comp[c] = m_comp[d] /\ Joinable(mem, m_comp[c], l, r)) =>
            /\ \A res \in join(mem, l, r, <<>>) : JoinPost(mem, res, l, r)
            /\ JoinDraws(mem, join(mem, l, r, <<>>), l, r)

\* No call is pending, and a tree of two nodes can be joined with a tree
\* of one node of greater key: every outcome of that join is as C20 says.
C20_Witness ==
    /\ call = Idle
    /\ live["a"] /\ live["b"]
    /\ \E l \in Elements(mem, "a"), r \in Elements(mem, "b") :
         /\ mem[l].m_size = 2
         /\ Joinable(mem, m_comp["a"], l, r)
         /\ \A res \in join(mem, l, r, <<>>) : JoinPost(mem, res, l, r)

\* ---------------------------------------------------------------------------
\* C21  Insert descent.

\* The memory in which the free node p has just been constructed with key k.
Constructed(h, p, k) == [h EXCEPT ![p] = RbstNode(h, k, NULL, NULL, NULL)]

\* Node x is the same in h2 as in h: links, size and key.
Unmodified(h, h2, x) == h2[x] = h[x]

\* One outcome res of p->insert(node, parent) on memory h, node absent: p
\* is a leaf of size 1 below parent and nothing was drawn.
InsertAbsent(h, res, p, parent) ==
    /\ res.ret = p
    /\ res.ds = <<>>
    /\ res.h[p].m_left = NULL /\ res.h[p].m_right = NULL
    /\ res.h[p].m_size = 1
    /\ res.h[p].m_parent = parent
    /\ \A x \in Addr \ {p} : Unmodified(h, res.h, x)

\* One outcome on the value 0: p is the root of the subtree, the old
\* subtree is split into its children, its parent is node's former parent.
InsertedHere(h, res, cmp, p, node) ==
    /\ res.ret = p
    /\ Len(res.ds) = 1
    /\ SplitPostOf(h, res.h, cmp, p, node)
    /\ res.h[p].m_parent = h[node].m_parent
    /\ res.h[p].m_size = h[node].m_size + 1

\* One outcome on any other value: node stays the root, one larger, and p
\* has gone into its left subtree when p's key is less than node's key, into
\* its right subtree otherwise; the other subtree is untouched.
InsertedBelow(h, res, cmp, p, node) ==
    /\ res.ret = node
    /\ res.h[node].m_size = h[node].m_size + 1
    /\ res.h[node].m_parent = h[node].m_parent
    /\ res.h[node].m_value = h[node].m_value
    /\ IF comp(cmp, h[p].m_value, h[node].m_value)
       THEN /\ Subtree(res.h, res.h[node].m_left) = Subtree(h, h[node].m_left) \cup {p}
            /\ res.h[node].m_right = h[node].m_right
            /\ \A x \in Subtree(h, h[node].m_right) : Unmodified(h, res.h, x)
       ELSE /\ Subtree(res.h, res.h[node].m_right) = Subtree(h, h[node].m_right) \cup {p}
            /\ res.h[node].m_left = h[node].m_left
            /\ \A x \in Subtree(h, h[node].m_left) : Unmodified(h, res.h, x)
    /\ ValidSubtree(res.h, cmp, node)

InsertPost(h, res, cmp, p, node) ==
    /\ Len(res.ds) >= 1
    /\ res.ds[1] \in 0 .. h[node].m_size
    /\ IF res.ds[1] = 0 THEN InsertedHere(h, res, cmp, p, node)
                        ELSE InsertedBelow(h, res, cmp, p, node)

\* Each of the size + 1 values can be the one drawn at node, and the value
\* 0 alone makes p the root.
InsertDraws(h, outcomes, p, node) ==
    /\ {res.ds[1] : res \in outcomes} = 0 .. h[node].m_size
    /\ \A res \in outcomes : res.ret = p <=> res.ds[1] = 0

InsertDescent(h, cmp, p, node) ==
    /\ \A res \in insert(h, cmp, p, node, h[node].m_parent, <<>>) :
          InsertPost(h, res, cmp, p, node)
    /\ InsertDraws(h, insert(h, cmp, p, node, h[node].m_parent, <<>>), p, node)

\* C21: at an existing node of subtree size s visited while a new node is
\* inserted, the value 0 alone among the s + 1 that can be drawn makes the
\* new node the root of that subtree, the old subtree split into its left
\* and right children and its parent link set to the visited node's former
\* parent; on every other value the insertion goes on in the left child when
\* the new key is less than the visited node's key, in the right child
\* otherwise, and the visited node's size grows by exactly one; inserting
\* into an absent subtree makes the new node a leaf of size 1.  Every memory
\* the program reaches is also there when no call is pending, which is where
\* insert is applied to it.
C21_InsertDescent ==
    call = Idle =>
    \A c \in LiveSets : \A p \in Pivots : \A k \in Keys :
      /\ \A node \in Elements(mem, c) :
           InsertDescent(Constructed(mem, p, k), m_comp[c], p, node)
      /\ \A parent \in Positions(mem, c) :
           \A res \in insert(Constructed(mem, p, k), m_comp[c], p, NULL, parent, <<>>) :
             InsertAbsent(Constructed(mem, p, k), res, p, parent)

\* No call is pending and a new node is inserted at the root of a tree of
\* two nodes: on the value 0 it becomes the root, on another value it goes
\* below the root, and both outcomes are as C21 says.
C21_Witness ==
    /\ call = Idle /\ live["a"]
    /\ \E p \in Pivots, k \in Keys :
         /\ Set_size(mem, "a") = 2
         /\ InsertDescent(Constructed(mem, p, k), m_comp["a"], p, root(mem, TreeOf("a")))
         /\ \E res \in insert(Constructed(mem, p, k), m_comp["a"], p,
                              root(mem, TreeOf("a")), TreeOf("a"), <<>>) :
              res.ret # p /\ Len(res.ds) = 2

\* ---------------------------------------------------------------------------
\* C22  Node-level erase.

\* The nodes above n: its parent, the parent's parent, up to the top.
RECURSIVE Ancestors(_, _)
Ancestors(h, n) ==
    IF h[n].m_parent = NULL THEN {}
    ELSE {h[n].m_parent} \cup Ancestors(h, h[n].m_parent)

\* The topmost node above n, n itself when it has no parent.
RECURSIVE Top(_, _)
Top(h, n) == IF h[n].m_parent = NULL THEN n ELSE Top(h, h[n].m_parent)

\* The subtree of x taken as a tree of its own: x has no parent.
Detached(h, x) == [h EXCEPT ![x].m_parent = NULL]

\* Node a above x after the erase: one smaller, its links as before but
\* for the child slot that held x, which holds the joined child j.
AncestorPost(h, h2, x, a, j) ==
    /\ h2[a].m_size = h[a].m_size - 1
    /\ h2[a].m_parent = h[a].m_parent
    /\ h2[a].m_value = h[a].m_value
    /\ h2[a].m_left = (IF h[a].m_left = x THEN j ELSE h[a].m_left)
    /\ h2[a].m_right = (IF h[a].m_left # x /\ h[a].m_right = x THEN j ELSE h[a].m_right)

\* What C22 says of one outcome res of x->erase() on memory h; parent is
\* x's parent in h and j the child now in x's place.
ErasePost(h, res, x, parent, j) ==
    /\ res.h[x].m_parent = NULL /\ res.h[x].m_left = NULL /\ res.h[x].m_right = NULL
    /\ res.h[x].m_size = 1
    /\ res.h[x].m_value = h[x].m_value
    /\ Walk(res.h, j) = Walk(h, h[x].m_left) \o Walk(h, h[x].m_right)
    /\ j # NULL => res.h[j].m_parent = parent
    /\ \A a \in Ancestors(h, x) : AncestorPost(h, res.h, x, a, j)
    /\ \A y \in Addr \ (Subtree(h, x) \cup Ancestors(h, x)) : Unmodified(h, res.h, y)
    /\ res.ret = (IF parent # NULL THEN Top(h, x) ELSE j)

\* The child in x's place after the erase: what the slot of the parent
\* holds, or what is returned when x had no parent.
Replacement(h, res, x, parent) ==
    IF parent = NULL THEN res.ret
    ELSE IF h[parent].m_left = x THEN res.h[parent].m_left
    ELSE res.h[parent].m_right

EraseNode(h, x) ==
    \A res \in erase(h, x, <<>>) :
        ErasePost(h, res, x, h[x].m_parent, Replacement(h, res, x, h[x].m_parent))

\* C22: erase of a node x of a tree satisfying I1-I3 puts the join of x's
\* two children in x's child slot of its former parent, re-parented to it;
\* the size of every ancestor of x up to the top is one less; no node
\* outside x's subtree and ancestor path is modified; x ends with parent,
\* left and right absent and size 1; the call returns the topmost ancestor,
\* unchanged, when x had a parent, and the joined child, its parent absent,
\* or absent itself when x was alone, when x had none.  Every memory the
\* program reaches is also there when no call is pending, which is where
\* erase is applied to it.
C22_NodeErase ==
    call = Idle =>
    \A c \in LiveSets :
      WellFormed(mem, m_comp[c], c) =>
        \A x \in Elements(mem, c) :
          /\ EraseNode(mem, x)
          /\ EraseNode(Detached(mem, x), x)

\* No call is pending; the root of a tree of three nodes has two children
\* and is erased as C22 says, in place and as a tree of its own; a child of
\* the root has two nodes above it, the root and the root holder.
C22_Witness ==
    /\ call = Idle /\ live["a"]
    /\ Set_size(mem, "a") = 3
    /\ \E x \in Elements(mem, "a") :
         /\ mem[x].m_left # NULL /\ mem[x].m_right # NULL
         /\ EraseNode(mem, x) /\ EraseNode(Detached(mem, x), x)
    /\ \E y \in Elements(mem, "a") :
         Cardinality(Ancestors(mem, y)) = 2 /\ EraseNode(mem, y)

\* ---------------------------------------------------------------------------
\* C23  Draw accounting.

\* The draws ds of p->insert(node, ...) from the i-th on, followed down the
\* tree h as the code visits it; ret is what the call at node returned in
\* h2.  At an existing node one value is drawn, with bound 1 + size(node):
\* the bound is at least 2 and the value is below it.  At an absent subtree
\* nothing is drawn: the draws have all been accounted for.
RECURSIVE InsertAccount(_, _, _, _, _, _, _, _)
InsertAccount(h, h2, cmp, p, node, ret, ds, i) ==
    IF node = NULL THEN ret = p /\ i = Len(ds) + 1
    ELSE /\ i <= Len(ds)
         /\ 1 + size(h, node) >= 2
         /\ ds[i] \in 0 .. size(h, node)
         /\ IF ds[i] = 0 THEN ret = p /\ i = Len(ds)
            ELSE /\ ret = node
                 /\ IF comp(cmp, h[p].m_value, h[node].m_value)
                    THEN InsertAccount(h, h2, cmp, p, h[node].m_left,
                                       h2[node].m_left, ds, i + 1)
                    ELSE InsertAccount(h, h2, cmp, p, h[node].m_right,
                                       h2[node].m_right, ds, i + 1)

\* The same for join(l, r): at a level with both present one value is
\* drawn, with bound size(l) + size(r); at a level with either absent none.
RECURSIVE JoinAccount(_, _, _, _, _, _, _)
JoinAccount(h, h2, l, r, ret, ds, i) ==
    IF l = NULL \/ r = NULL THEN i = Len(ds) + 1
    ELSE /\ i <= Len(ds)
         /\ size(h, l) + size(h, r) >= 2
         /\ ds[i] \in 0 .. (size(h, l) + size(h, r) - 1)
         /\ IF ds[i] < size(h, l)
            THEN ret = l /\ JoinAccount(h, h2, h[l].m_right, r, h2[l].m_right, ds, i + 1)
            ELSE ret = r /\ JoinAccount(h, h2, l, h[r].m_left, h2[r].m_left, ds, i + 1)

\* The outcomes of a call differ in the values drawn, and there is one.
DrawsDecide(outcomes) ==
    /\ outcomes # {}
    /\ \A o1 \in outcomes, o2 \in outcomes : o1.ds = o2.ds => o1 = o2

InsertAccounts(h, cmp, p, node, outcomes) ==
    /\ DrawsDecide(outcomes)
    /\ \A res \in outcomes : InsertAccount(h, res.h, cmp, p, node, res.ret, res.ds, 1)

JoinAccounts(h, l, r, outcomes) ==
    /\ DrawsDecide(outcomes)
    /\ \A res \in outcomes : JoinAccount(h, res.h, l, r, res.ret, res.ds, 1)

\* An insert of a present key and an erase of an absent key have drawn
\* nothing.
NoDrawWithoutChange ==
    (call.op \in {"insert", "erase"} /\ call.n = 0) => call.draws = 0

\* C23: every call to the random source is made with a bound of at least 2
\* and its result is below the bound; an insert draws one value per existing
\* node it visits on the way down, none at an absent subtree; a join draws
\* one value per recursion level at which both arguments are present; an
\* insert of a key already present and an erase of an absent key draw
\* nothing.  find, lower_bound, upper_bound and the navigation members are
\* given no random source.  Every memory the program reaches is also there
\* when no call is pending, which is where insert and join are applied.
C23_DrawAccounting ==
    /\ NoDrawWithoutChange
    /\ call = Idle =>
         \A c \in LiveSets :
           /\ \A p \in Pivots, k \in Keys :
                InsertAccounts(Constructed(mem, p, k), m_comp[c], p, root(mem, TreeOf(c)),
                               insert(Constructed(mem, p, k), m_comp[c], p,
                                      root(mem, TreeOf(c)), TreeOf(c), <<>>))
           /\ \A d \in LiveSets :
                \A l \in Elements(mem, c) \cup {NULL}, r \in Elements(mem, d) \cup {NULL} :
                  (m_comp[c] = m_comp[d] /\ Joinable(mem, m_comp[c], l, r)) =>
                      JoinAccounts(mem, l, r, join(mem, l, r, <<>>))

\* No call is pending; the trees of two containers can be joined, which
\* draws a value, and a new node can be inserted at an existing node, which
\* draws a value: both are accounted for as C23 says.
C23_Witness ==
    /\ call = Idle /\ live["a"] /\ live["b"]
    /\ \E l \in Elements(mem, "a"), r \in Elements(mem, "b") :
         /\ Joinable(mem, m_comp["a"], l, r)
         /\ JoinAccounts(mem, l, r, join(mem, l, r, <<>>))
         /\ \E res \in join(mem, l, r, <<>>) : Len(res.ds) = 1
    /\ \E p \in Pivots, k \in Keys :
         \E res \in insert(Constructed(mem, p, k), m_comp["b"], p,
                           root(mem, TreeOf("b")), TreeOf("b"), <<>>) :
           /\ Len(res.ds) = 1
           /\ InsertAccount(Constructed(mem, p, k), res.h, m_comp["b"], p,
                            root(mem, TreeOf("b")), res.ret, res.ds, 1)

\* ---------------------------------------------------------------------------
\* C24  Termination.

\* The i-th nested call of the walk vs goes up to the parent, or down to a
\* child.
Ascends(h, vs, i)  == vs[i + 1] = h[vs[i]].m_parent
Descends(h, vs, i) == vs[i + 1] \in {h[vs[i]].m_left, h[vs[i]].m_right} \ {NULL}

\* The walk vs of n->offset(d), which returned ret: it ends within as many
\* calls as the tree has nodes, visits no node twice, never goes up once it
\* has gone down, and never comes back into a subtree it has left upwards.
OffsetWalk(h, n, vs, ret) ==
    /\ Len(vs) >= 1 /\ vs[1] = n
    /\ Len(vs) <= Cardinality(Subtree(h, Top(h, n)))
    /\ \A i \in 1 .. Len(vs), j \in 1 .. Len(vs) : i < j => vs[i] # vs[j]
    /\ \A i \in 1 .. Len(vs) - 1 : Ascends(h, vs, i) \/ Descends(h, vs, i)
    /\ \A i \in 1 .. Len(vs) - 1, j \in 1 .. Len(vs) - 1 :
         (i < j /\ Descends(h, vs, i)) => Descends(h, vs, j)
    /\ \A i \in 1 .. Len(vs) - 1, j \in 1 .. Len(vs) :
         (i < j /\ Ascends(h, vs, i)) => vs[j] \notin Subtree(h, vs[i])
    /\ ret \in {NULL, vs[Len(vs)]}

\* n->offset(d) finishes, and its walk is as OffsetWalk says.
OffsetFinishes(h, n, d) ==
    /\ Len(offsetVisits(h, n, d, OffsetFuel)) < OffsetFuel
    /\ OffsetWalk(h, n, offsetVisits(h, n, d, OffsetFuel), offset(h, n, d))

\* Every call that draws nothing finishes on the tree of container c: it
\* gives a position of the container or none, or a rank within it.
ReadsFinish(h, cmp, c) ==
    /\ \A pos \in Positions(h, c) :
         /\ \A d \in Distances : OffsetFinishes(h, pos, d)
         /\ index(h, pos) \in 0 .. Set_size(h, c)
         /\ next(h, pos) \in Positions(h, c) \cup {NULL}
         /\ previous(h, pos) \in Positions(h, c) \cup {NULL}
    /\ \A i \in 0 .. Set_size(h, c) : at(h, TreeOf(c), i) \in Positions(h, c)
    /\ \A value \in Keys :
         /\ Tree_find(h, cmp, TreeOf(c), value) \in Positions(h, c)
         /\ Tree_lower_bound(h, cmp, TreeOf(c), value) \in Positions(h, c)
         /\ Tree_upper_bound(h, cmp, TreeOf(c), value) \in Positions(h, c)

\* The insert or erase recorded has finished, having drawn no more values
\* than the tree has nodes.
WritesFinish(h, c) ==
    call.op \in {"insert", "erase_pos"} => call.draws <= Set_size(h, c)

\* C24: on any tree satisfying I1 and I2 every insert, erase, offset(d),
\* index, at(i) with i in range, next, previous, find, lower_bound and
\* upper_bound call finishes, whatever values are drawn; offset(d) visits no
\* node twice: once it has descended into a child it never ascends again,
\* and after ascending to a parent it never re-enters the subtree it came
\* from.  The calls that draw nothing are applied when no call is pending.
C24_Termination ==
    \A c \in LiveSets :
      (\A n \in Subtree(mem, TreeOf(c)) : I1(mem, n) /\ I2(mem, n)) =>
         /\ WritesFinish(mem, c)
         /\ call = Idle => ReadsFinish(mem, m_comp[c], c)

\* The walk of n->offset(d) goes up from n and then down into the other
\* subtree of the parent, and gives a position.
UpThenDown(h, n, d) ==
    /\ Len(offsetVisits(h, n, d, OffsetFuel)) = 3
    /\ Ascends(h, offsetVisits(h, n, d, OffsetFuel), 1)
    /\ Descends(h, offsetVisits(h, n, d, OffsetFuel), 2)
    /\ offset(h, n, d) # NULL

\* No call is pending on a tree whose keys are out of order; every call
\* finishes on it, and one call of offset() goes up and then down.
C24_Witness ==
    /\ call = Idle /\ live["a"]
    /\ \E n \in Elements(mem, "a") : ~I3(mem, m_comp["a"], n)
    /\ \E pos \in Elements(mem, "a"), d \in Distances : UpThenDown(mem, pos, d)
    /\ ReadsFinish(mem, m_comp["a"], "a")

\* ---------------------------------------------------------------------------
\* C25  Position stability.

\* Position p of container c denotes in memory h what its key's place in
\* the rank order ord says: index() is the rank, next() and previous() are
\* the neighbours (none before the first element).
DenotesRank(h, ord, p) ==
    /\ index(h, p) = Rank(ord, p)
    /\ next(h, p) = AtRank(ord, Rank(ord, p) + 1)
    /\ previous(h, p) = AtRank(ord, Rank(ord, p) - 1)

\* The step has erased key k from container c.
ErasedKey(c, k) == k \in reference[c] /\ k \notin reference'[c]

\* A position p held before the step for an element of c: after the step it
\* is gone exactly when the step erased its key; otherwise it is the same
\* node with the same key, at the current rank of that key.
StaysValid(c, p) ==
    IF ErasedKey(c, mem[p].m_value)
    THEN p \notin Elements(mem', c)
    ELSE /\ p \in Elements(mem', c)
         /\ mem'[p].m_value = mem[p].m_value
         /\ DenotesRank(mem', InOrder(mem', m_comp[c], c), p)

\* C25: a position obtained for an element with key k stays valid and keeps
\* denoting the same node and the same key across any later insert and any
\* later erase of other elements, whatever the values drawn; after each its
\* index() is the current rank of k and next() and previous() give k's
\* current neighbours; only the erase of k itself ends its validity.
C25_PositionStability ==
    [][\A c \in LiveSets : \A p \in Elements(mem, c) : StaysValid(c, p)]_vars

\* An erase has removed one element of three with values drawn: the two
\* other positions are still elements of the container.
C25_Witness ==
    /\ call.op \in {"erase", "erase_pos"}
    /\ call.draws >= 1
    /\ Set_size(mem, call.c) = 2
    /\ \A p \in Elements(mem, call.c) :
         DenotesRank(mem, InOrder(mem, m_comp[call.c], call.c), p)
=============================================================================
